---- MODULE Spec2Model ----
(***************************************************************************)
(* telegive-participant: the captcha-gated participation state machine     *)
(* and the winner-selection engine, modelled over the relational store.    *)
(*                                                                         *)
(* The store holds the four tables of src/models.  Every HTTP handler is   *)
(* a request running in one of the slots Reqs: a handler is cut into steps *)
(* at the points where it talks to the store with network I/O or another   *)
(* statement in between (a query, then later db.session.commit()), so that *)
(* two requests interleave the way two workers on a READ COMMITTED store   *)
(* do.  An ORM object loaded by a query is a snapshot held in the slot;    *)
(* `x.field += 1` followed by commit writes snapshot + 1.                  *)
(***************************************************************************)
EXTENDS Integers, Sequences, FiniteSets, TLC

\* ------------------------------------------------------------------ bounds
Users == {1, 2}
Giveaways == {1, 2}
Reqs == {1, 2}
MaxSessions == 2      \* CaptchaSession rows ever inserted
MaxNow == 11          \* the clock stops here (minutes)
MaxLogs == 2          \* WinnerSelectionLog rows ever inserted
MaxDeliveries == 1    \* update-delivery-status calls per participant
MaxPool == 3          \* pool length of the stand-alone selector runs
MaxWinners == 3       \* largest winner_count a request asks for
MaxDraws == 3         \* values captcha generation draws after a seeding
MaxAnswer == 12       \* largest correct_answer of the stand-alone checks
MaxFairPool == 10     \* largest pool of the uniformity check
MaxNumber == 6        \* largest CAPTCHA_MAX_NUMBER of the generator runs

\* ------------------------------------------------------- program constants
MaxAttempts == 3          \* CaptchaSession.max_attempts default
TimeoutMinutes == 10      \* CAPTCHA_TIMEOUT_MINUTES default
min_user_id == 1          \* InputValidator.min_user_id
min_giveaway_id == 1      \* InputValidator.min_giveaway_id
max_winner_count == 1000  \* InputValidator.max_winner_count
RetentionMinutes == 10080 \* cleanup_old_captcha_sessions(days_old=7)

VARIABLES
    participants,   \* table participants: sequence of rows, id = index
    records,        \* table user_captcha_records: user_id -> row (or NoRecord)
    sessions,       \* table captcha_sessions: sequence of rows, id = index
    logs,           \* table winner_selection_log: sequence of rows
    now,            \* datetime.utcnow(), in minutes
    req,            \* request slot -> the handler's position and locals
    last,           \* the response the last step sent (NoResponse if none)
    draw            \* a stand-alone run of WinnerSelector (pure function)

vars == <<participants, records, sessions, logs, now, req, last, draw>>
store == <<participants, records, sessions, logs>>

\* ------------------------------------------------------------------ rows
\* UserCaptchaRecord; `exists` is FALSE when the user has no row.  `rows`
\* counts the rows of the table that carry the user_id; the columns are
\* those of the row filter_by(user_id=...).first() returns.
NoRecord ==
    [exists |-> FALSE, captcha_completed |-> FALSE,
     total_participations |-> 0, total_wins |-> 0, rows |-> 0]

\* UserCaptchaRecord(user_id, captcha_completed=True, total_participations=n)
NewRecord(n) ==
    [exists |-> TRUE, captcha_completed |-> TRUE,
     total_participations |-> n, total_wins |-> 0, rows |-> 1]

\* Participant(giveaway_id, user_id, captcha_completed=True,
\* subscription_verified=True); the other columns take their defaults.
\* `verified` is a history field: the creating request had the subscription
\* verifier answer success with is_subscribed = true.
NewParticipant(g, u, v) ==
    [giveaway_id |-> g, user_id |-> u, captcha_completed |-> TRUE,
     subscription_verified |-> TRUE, is_winner |-> FALSE,
     message_delivered |-> FALSE, delivery_attempts |-> 0, verified |-> v]

\* The question the generator hands out in this model (one of its range;
\* it may hand out the same question twice).
Questions == {[question |-> "What is 1 + 2?", correct_answer |-> 3]}

\* CaptchaSession.create_session: attempts 0, max_attempts 3, not completed,
\* expires_at = utcnow() + timeout.
create_session(u, g, q, t) ==
    [user_id |-> u, giveaway_id |-> g, question |-> q.question,
     correct_answer |-> q.correct_answer, attempts |-> 0,
     max_attempts |-> MaxAttempts, completed |-> FALSE,
     expires_at |-> t + TimeoutMinutes, live |-> TRUE]

\* A deleted row: the id is never reused and no query finds the row.  What
\* is kept of it is history: whose it was, when it expired and whether it
\* had been completed.
DeletedSession(s) ==
    [user_id |-> s.user_id, giveaway_id |-> s.giveaway_id, question |-> "",
     correct_answer |-> 0, attempts |-> 0, max_attempts |-> MaxAttempts,
     completed |-> s.completed, expires_at |-> s.expires_at, live |-> FALSE]

\* CaptchaSession.is_expired
is_expired_Never(s, t) == FALSE

is_expired(s, t) == t > s.expires_at

\* CaptchaSession.can_attempt
can_attempt(s, t) ==
    ~s.completed /\ s.attempts < s.max_attempts /\ ~is_expired(s, t)

\* ------------------------------------------------------------- validators
\* InputValidator.validate_user_id: 0 stands for a malformed or
\* out-of-range id.
validate_user_id(u) == u >= min_user_id
validate_giveaway_id(g) == g >= min_giveaway_id
\* The captcha flow of one user touches no row of another user, so the
\* captcha specification sends its requests for one user (and the malformed
\* id); the selection specification uses every user.
CaptchaUsers == {1}
CaptchaGiveaways == {1}
UserInputs == CaptchaUsers \cup {0}
CaptchaGiveawayInputs == CaptchaGiveaways \cup {0}

\* Python's None, where a text is expected.
None == "<None>"

\* A text is the sequence of its characters.  The answers a client sends.
AnswerInputs == {<<"3">>, <<" ", "4", " ">>, <<"x">>}

\* No text at all: the argument is None.
NoAnswer == <<None>>

Whitespace == {" ", "\t", "\n"}
DigitChars == {"0", "1", "2", "3", "4", "5", "6", "7", "8", "9"}

DigitValue(c) ==
    CASE c = "0" -> 0 [] c = "1" -> 1 [] c = "2" -> 2 [] c = "3" -> 3
      [] c = "4" -> 4 [] c = "5" -> 5 [] c = "6" -> 6 [] c = "7" -> 7
      [] c = "8" -> 8 [] c = "9" -> 9

\* str.strip(): the text without its leading and trailing whitespace.
RECURSIVE lstrip(_)
lstrip(s) ==
    IF Len(s) > 0 /\ s[1] \in Whitespace THEN lstrip(Tail(s)) ELSE s

RECURSIVE rstrip(_)
rstrip(s) ==
    IF Len(s) > 0 /\ s[Len(s)] \in Whitespace
    THEN rstrip(SubSeq(s, 1, Len(s) - 1)) ELSE s

strip(s) == rstrip(lstrip(s))

\* The digits of a literal, its sign taken off.
Unsigned(s) == IF Len(s) > 0 /\ s[1] \in {"+", "-"} THEN Tail(s) ELSE s

\* The value of a sequence of digits.
RECURSIVE DigitsValue(_)
DigitsValue(s) ==
    IF Len(s) = 0 THEN 0
    ELSE 10 * DigitsValue(SubSeq(s, 1, Len(s) - 1)) + DigitValue(s[Len(s)])

\* int(text) succeeds: surrounding whitespace, an optional sign, digits.
IsNumeric(a) ==
    LET body == Unsigned(strip(a))
    IN Len(body) > 0 /\ \A k \in 1..Len(body) : body[k] \in DigitChars

\* int(text)
IntValue_Unsigned(a) == DigitsValue(Unsigned(strip(a)))

IntValue(a) ==
    LET t == strip(a)
    IN IF Len(t) > 0 /\ t[1] = "-" THEN 0 - DigitsValue(Unsigned(t))
       ELSE DigitsValue(Unsigned(t))

validate_answer_Never(a, correct) == FALSE

\* CaptchaGenerator.validate_answer: int(user_answer.strip()) ==
\* correct_answer; a ValueError (not a number) or an AttributeError (None
\* has no strip) gives False.
validate_answer(a, correct) ==
    IF a = NoAnswer THEN FALSE
    ELSE IsNumeric(strip(a)) /\ IntValue(strip(a)) = correct

\* ------------------------------------------------------------- queries
\* Participant.query.filter_by(giveaway_id=g, user_id=u).first() is not None
HasParticipant(ps, g, u) ==
    \E i \in 1..Len(ps) : ps[i].giveaway_id = g /\ ps[i].user_id = u

\* `not captcha_record or not captcha_record.captcha_completed`
NeedsCaptcha_NotDropped(rec) == ~rec.exists \/ rec.captcha_completed

NeedsCaptcha_Never(rec) == FALSE

NeedsCaptcha(rec) == ~rec.exists \/ ~rec.captcha_completed

\* The user's record has captcha_completed = true.
Latched(rs, u) == rs[u].exists /\ rs[u].captcha_completed

\* The unique constraint uq_giveaway_user: the INSERT is accepted only when
\* no committed row has the pair.
UniqueViolation_Off(ps, g, u) == FALSE

UniqueViolation(ps, g, u) == HasParticipant(ps, g, u)

\* ------------------------------------------------------------- requests
\* A slot that runs no request.  A running request keeps here its position
\* (pc) and the objects its queries loaded.
\* `status` is the status the giveaway-info provider holds for the giveaway
\* while the request runs ("none": no request).
Idle ==
    [pc |-> "done", user |-> 0, giveaway |-> 0, rec |-> NoRecord,
     sid |-> 0, attempts |-> 0, verified |-> FALSE, status |-> "none",
     method |-> "",
     pool |-> <<>>, selected |-> <<>>, count |-> 0,
     recs |-> [u \in Users |-> NoRecord]]

NoResponse ==
    [op |-> "none", user |-> 0, giveaway |-> 0, code |-> "NONE",
     cause |-> "none", attempts_remaining |-> 0 - 1, selection_method |-> ""]

\* A new request takes the lowest free slot.
Free(r) == req[r].pc = "done" /\ \A q \in Reqs : q < r => req[q].pc # "done"

\* The handler returns: jsonify(...) with this error_code (or outcome).
\* INVALID_INPUT stands for the error_code of the failing validator.
Respond(r, op, u, g, code, cause) ==
    /\ req' = [req EXCEPT ![r] = Idle]
    /\ last' = [NoResponse EXCEPT !.op = op, !.user = u, !.giveaway = g,
                                  !.code = code, !.cause = cause]

\* The same, from a later step of the request running in slot r.
Reply(r, op, code, cause) ==
    Respond(r, op, req[r].user, req[r].giveaway, code, cause)

\* The same, the body carrying 'attempts_remaining'.
ReplyRemaining(r, op, code, remaining) ==
    /\ req' = [req EXCEPT ![r] = Idle]
    /\ last' = [NoResponse EXCEPT !.op = op, !.user = req[r].user,
                                  !.giveaway = req[r].giveaway,
                                  !.code = code,
                                  !.attempts_remaining = remaining]

\* The same, for a selection that was committed: the body carries
\* 'selection_method'.
ReplySelected(r, op, method) ==
    /\ req' = [req EXCEPT ![r] = Idle]
    /\ last' = [NoResponse EXCEPT !.op = op, !.giveaway = req[r].giveaway,
                                  !.code = "WINNERS_SELECTED",
                                  !.selection_method = method]

\* The handler goes on to its next statement.
Continue(r, slot) ==
    /\ req' = [req EXCEPT ![r] = slot]
    /\ last' = NoResponse

\* telegive_service.py:72-82: giveaway.get('status'); is_giveaway_active is
\* status == 'active'.
GiveawayStatuses == {"active", "finished"}

\* The failures of get_giveaway and verify_subscription, with the
\* error_code the handlers return for each.
ExtFailures == {"GIVEAWAY_NOT_FOUND", "SUBSCRIPTION_ERROR", "USER_NOT_SUBSCRIBED"}

\* db.session.add(participant); captcha_record.total_participations += 1;
\* db.session.commit(): the row is appended and the counter column is
\* written with the loaded value plus one.
ParticipantsAfterCommit(ps, g, u, v) == Append(ps, NewParticipant(g, u, v))

RecordsAfterCommit(rs, u, loaded) ==
    [rs EXCEPT ![u].total_participations = loaded.total_participations + 1]

\* ------------------------------------------------- register_participation
\* participants.py:16-105: validation, activity check, duplicate check,
\* captcha check, giveaway lookup and subscription verification.
register_check(r, u, g) ==
    /\ Free(r)
    /\ UNCHANGED <<store, now, draw>>
    /\ IF ~(validate_user_id(u) /\ validate_giveaway_id(g))
       THEN Respond(r, "register", u, g, "INVALID_INPUT", "none")
       ELSE \/ Respond(r, "register", u, g, "GIVEAWAY_NOT_ACTIVE", "none")
            \/ /\ HasParticipant(participants, g, u)
               /\ Respond(r, "register", u, g, "ALREADY_PARTICIPATED", "none")
            \/ /\ ~HasParticipant(participants, g, u)
               /\ NeedsCaptcha(records[u])
               /\ Continue(r, [Idle EXCEPT !.pc = "register_issue",
                                           !.user = u, !.giveaway = g,
                                           !.status = "active"])
            \/ /\ ~HasParticipant(participants, g, u)
               /\ ~NeedsCaptcha(records[u])
               /\ \/ \E e \in ExtFailures : Respond(r, "register", u, g, e, "none")
                  \/ Continue(r, [Idle EXCEPT !.pc = "register_commit",
                                              !.user = u, !.giveaway = g,
                                              !.rec = records[u],
                                              !.verified = TRUE,
                                              !.status = "active"])

\* participants.py:57-78: the CaptchaSession is inserted and committed.
register_issue(r, q) ==
    /\ req[r].pc = "register_issue"
    /\ Len(sessions) < MaxSessions
    /\ sessions' = Append(sessions,
                          create_session(req[r].user, req[r].giveaway, q, now))
    /\ Reply(r, "register", "CAPTCHA_REQUIRED", "none")
    /\ UNCHANGED <<participants, records, logs, now, draw>>

\* participants.py:107-149: Participant insert and the counter update in one
\* commit; an IntegrityError ends in the handler's rollback.
register_commit(r) ==
    /\ req[r].pc = "register_commit"
    /\ UNCHANGED <<sessions, logs, now, draw>>
    /\ IF UniqueViolation(participants, req[r].giveaway, req[r].user)
       THEN /\ Reply(r, "register", "REGISTRATION_ERROR",
                     "unique_violation")
            /\ UNCHANGED <<participants, records>>
       ELSE /\ participants' = ParticipantsAfterCommit(participants,
                                   req[r].giveaway, req[r].user, req[r].verified)
            /\ records' = RecordsAfterCommit(records, req[r].user, req[r].rec)
            /\ Reply(r, "register", "PARTICIPATION_CONFIRMED", "none")

\* ------------------------------------------------ register_participant_v2
\* bot_service_final.py:139-217 (participants_enhanced.py:24-99 is the same
\* code): presence of the fields, duplicate check, captcha check.  The
\* captcha branch builds CaptchaSession(session_id=...); the model class has
\* no such column, the constructor raises and the handler rolls back.  The
\* direct branch calls no subscription verifier and no giveaway-info
\* provider: the giveaway has whatever status it has.
register_participant_v2_check(r, u, g) ==
    /\ Free(r)
    /\ UNCHANGED <<store, now, draw>>
    /\ IF u = 0 \/ g = 0
       THEN Respond(r, "register_v2", u, g, "MISSING_FIELD", "none")
       ELSE IF HasParticipant(participants, g, u)
       THEN Respond(r, "register_v2", u, g, "DUPLICATE_PARTICIPATION", "none")
       ELSE IF NeedsCaptcha(records[u])
       THEN Respond(r, "register_v2", u, g, "REGISTRATION_ERROR", "invalid_keyword")
       ELSE \E st \in GiveawayStatuses :
                Continue(r, [Idle EXCEPT !.pc = "register_v2_commit",
                                         !.user = u, !.giveaway = g,
                                         !.rec = records[u],
                                         !.status = st])

\* bot_service_final.py:219-244: Participant insert and counter update.
register_participant_v2_commit(r) ==
    /\ req[r].pc = "register_v2_commit"
    /\ UNCHANGED <<sessions, logs, now, draw>>
    /\ IF UniqueViolation(participants, req[r].giveaway, req[r].user)
       THEN /\ Reply(r, "register_v2", "REGISTRATION_ERROR",
                       "unique_violation")
            /\ UNCHANGED <<participants, records>>
       ELSE /\ participants' = ParticipantsAfterCommit(participants,
                                   req[r].giveaway, req[r].user, req[r].verified)
            /\ records' = RecordsAfterCommit(records, req[r].user, req[r].rec)
            /\ Reply(r, "register_v2", "PARTICIPATION_CONFIRMED", "none")

\* bot_service_final.py:255-278 (participants_enhanced.py:169-192): the
\* lookup filter_by(session_id=...) names a column the model class does not
\* have; the query raises and the handler rolls back.
validate_captcha_v2(r, u, g) ==
    /\ Free(r)
    /\ UNCHANGED <<store, now, draw>>
    /\ IF u = 0 \/ g = 0
       THEN Respond(r, "validate_v2", u, g, "MISSING_FIELD", "none")
       ELSE Respond(r, "validate_v2", u, g, "CAPTCHA_VALIDATION_ERROR",
                    "invalid_keyword")

\* ------------------------------------------------------- validate_captcha
\* CaptchaSession.query.filter_by(user_id, giveaway_id, completed=False)
\*     .order_by(created_at.desc()).first(): the id of the row, 0 for None.
FindSession_Oldest(ss, u, g) ==
    LET hits == {i \in 1..Len(ss) : /\ ss[i].live
                                     /\ ss[i].user_id = u
                                     /\ ss[i].giveaway_id = g
                                     /\ ~ss[i].completed}
    IN IF hits = {} THEN 0 ELSE CHOOSE i \in hits : \A j \in hits : i <= j

FindSession(ss, u, g) ==
    LET hits == {i \in 1..Len(ss) : /\ ss[i].live
                                     /\ ss[i].user_id = u
                                     /\ ss[i].giveaway_id = g
                                     /\ ~ss[i].completed}
    IN IF hits = {} THEN 0 ELSE CHOOSE i \in hits : \A j \in hits : j <= i

\* captcha.py:69-82: the UserCaptchaRecord row the correct answer leaves in
\* the session, from the row the query at line 70 loaded.
CompleteRecord_Toggle(rec) ==
    IF rec.exists
    THEN [rec EXCEPT !.captcha_completed = ~rec.captcha_completed]
    ELSE NewRecord(0)

CompleteRecord(rec) ==
    IF rec.exists
    THEN IF ~rec.captcha_completed
         THEN [rec EXCEPT !.captcha_completed = TRUE]
         ELSE rec
    ELSE NewRecord(0)

\* captcha.py:13-82: validation, session lookup, expiry and attempt checks,
\* increment_attempts, validate_answer and, on a correct answer, the lookup
\* of the user's record.
validate_check(r, u, g, a) ==
    /\ Free(r)
    /\ UNCHANGED <<store, now, draw>>
    /\ LET sid == FindSession(sessions, u, g) IN
       IF ~(validate_user_id(u) /\ validate_giveaway_id(g) /\ IsNumeric(a))
       THEN Respond(r, "validate", u, g, "INVALID_INPUT", "none")
       ELSE IF sid = 0
       THEN Respond(r, "validate", u, g, "CAPTCHA_SESSION_NOT_FOUND", "none")
       ELSE IF is_expired(sessions[sid], now)
       THEN Respond(r, "validate", u, g, "CAPTCHA_EXPIRED", "none")
       ELSE IF ~can_attempt(sessions[sid], now)
       THEN Respond(r, "validate", u, g, "CAPTCHA_ATTEMPTS_EXCEEDED", "none")
       ELSE IF validate_answer(a, sessions[sid].correct_answer)
       THEN Continue(r, [Idle EXCEPT !.pc = "validate_latch",
                                     !.user = u, !.giveaway = g, !.sid = sid,
                                     !.attempts = sessions[sid].attempts + 1,
                                     !.rec = records[u]])
       ELSE Continue(r, [Idle EXCEPT !.pc = "validate_wrong",
                                     !.user = u, !.giveaway = g, !.sid = sid,
                                     !.attempts = sessions[sid].attempts + 1])

\* The record column the first commit writes: an existing row gets the one
\* column the handler assigned, a missing row is inserted.
RecordsAfterLatch(rs, u, loaded) ==
    IF loaded.exists
    THEN [rs EXCEPT ![u].captcha_completed =
                        CompleteRecord(loaded).captcha_completed]
    ELSE [rs EXCEPT ![u] = [CompleteRecord(loaded) EXCEPT
                               !.rows = rs[u].rows + 1]]

\* user_captcha_record.py:10, user_id unique=True: the INSERT of a row for a
\* user is accepted only when no committed row has the user_id.
RecordUniqueViolation_Off(rs, u, loaded) == FALSE

RecordUniqueViolation(rs, u, loaded) == ~loaded.exists /\ rs[u].exists

\* captcha.py:84-116: the first commit (session attempts and completed, the
\* record), then the giveaway lookup and the subscription verification.
\* get_giveaway returns the giveaway whatever its status; the handler reads
\* only account_id.
\* The UPDATE of a session row that cleanup deleted meanwhile, or the INSERT
\* of a second record for the user, fails and the handler rolls back.
validate_latch(r) ==
    /\ req[r].pc = "validate_latch"
    /\ UNCHANGED <<participants, logs, now, draw>>
    /\ IF ~sessions[req[r].sid].live
       THEN /\ Reply(r, "validate", "CAPTCHA_VALIDATION_ERROR",
                     "stale_row")
            /\ UNCHANGED <<sessions, records>>
       ELSE IF RecordUniqueViolation(records, req[r].user, req[r].rec)
       THEN /\ Reply(r, "validate", "CAPTCHA_VALIDATION_ERROR",
                       "unique_violation")
            /\ UNCHANGED <<sessions, records>>
       ELSE /\ sessions' = [sessions EXCEPT
                               ![req[r].sid].attempts = req[r].attempts,
                               ![req[r].sid].completed = TRUE]
            /\ records' = RecordsAfterLatch(records, req[r].user, req[r].rec)
            /\ \/ \E e \in ExtFailures : Reply(r, "validate", e, "latched")
               \/ \E st \in GiveawayStatuses :
                      Continue(r, [req[r] EXCEPT !.pc = "validate_register",
                                                 !.verified = TRUE,
                                                 !.status = st])

\* captcha.py:118-146: the duplicate check; the record, expired by the
\* commit, is loaded again when its counter is read.
validate_register(r) ==
    /\ req[r].pc = "validate_register"
    /\ UNCHANGED <<store, now, draw>>
    /\ IF HasParticipant(participants, req[r].giveaway, req[r].user)
       THEN Reply(r, "validate", "PARTICIPATION_CONFIRMED", "existing")
       ELSE Continue(r, [req[r] EXCEPT !.pc = "validate_commit",
                                       !.rec = records[req[r].user]])

\* captcha.py:133-155: Participant insert and the counter update, committed.
validate_commit(r) ==
    /\ req[r].pc = "validate_commit"
    /\ UNCHANGED <<sessions, logs, now, draw>>
    /\ IF UniqueViolation(participants, req[r].giveaway, req[r].user)
       THEN /\ Reply(r, "validate", "CAPTCHA_VALIDATION_ERROR",
                       "unique_violation")
            /\ UNCHANGED <<participants, records>>
       ELSE /\ participants' = ParticipantsAfterCommit(participants,
                                   req[r].giveaway, req[r].user, req[r].verified)
            /\ records' = RecordsAfterCommit(records, req[r].user, req[r].rec)
            /\ Reply(r, "validate", "PARTICIPATION_CONFIRMED", "none")

\* captcha.py:161: captcha_session.max_attempts - captcha_session.attempts
attempts_remaining_Max(max_attempts, attempts) == max_attempts

attempts_remaining(max_attempts, attempts) == max_attempts - attempts

\* captcha.py:157-163, 186-192: the wrong answer commits the incremented
\* attempts; the session, expired by the commit, is loaded again to compute
\* attempts_remaining.
validate_wrong(r) ==
    /\ req[r].pc = "validate_wrong"
    /\ UNCHANGED <<participants, records, logs, now, draw>>
    /\ IF ~sessions[req[r].sid].live
       THEN /\ Reply(r, "validate", "CAPTCHA_VALIDATION_ERROR",
                     "stale_row")
            /\ UNCHANGED sessions
       ELSE /\ sessions' = [sessions EXCEPT
                               ![req[r].sid].attempts = req[r].attempts]
            /\ LET remaining ==
                       attempts_remaining(sessions[req[r].sid].max_attempts,
                                          req[r].attempts)
               IN IF remaining <= 0
                  THEN Continue(r, [req[r] EXCEPT
                                       !.pc = "validate_regenerate"])
                  ELSE ReplyRemaining(r, "validate", "INCORRECT_ANSWER",
                                      remaining)

\* captcha.py:164-185: a new session with a new question is inserted.
validate_regenerate(r, q) ==
    /\ req[r].pc = "validate_regenerate"
    /\ Len(sessions) < MaxSessions
    /\ sessions' = Append(sessions,
                          create_session(req[r].user, req[r].giveaway, q, now))
    /\ ReplyRemaining(r, "validate", "NEW_QUESTION", MaxAttempts)
    /\ UNCHANGED <<participants, records, logs, now, draw>>

\* ------------------------------------------------------- generate_captcha
\* captcha.py:248-280: validation and the global-completion check.
generate_check(r, u, g) ==
    /\ Free(r)
    /\ UNCHANGED <<store, now, draw>>
    /\ IF ~(validate_user_id(u) /\ validate_giveaway_id(g))
       THEN Respond(r, "generate", u, g, "INVALID_INPUT", "none")
       ELSE IF ~NeedsCaptcha(records[u])
       THEN Respond(r, "generate", u, g, "CAPTCHA_ALREADY_COMPLETED", "none")
       ELSE Continue(r, [Idle EXCEPT !.pc = "generate_issue",
                                     !.user = u, !.giveaway = g])

\* captcha.py:282-303: the CaptchaSession is inserted and committed.
generate_issue(r, q) ==
    /\ req[r].pc = "generate_issue"
    /\ Len(sessions) < MaxSessions
    /\ sessions' = Append(sessions,
                          create_session(req[r].user, req[r].giveaway, q, now))
    /\ Reply(r, "generate", "CAPTCHA_GENERATED", "none")
    /\ UNCHANGED <<participants, records, logs, now, draw>>

\* ---------------------------------------------------------- WinnerSelector
Min(a, b) == IF a <= b THEN a ELSE b
Max(a, b) == IF a >= b THEN a ELSE b
Range(seq) == {seq[k] : k \in 1..Len(seq)}

\* available.pop(i): the list without its element at position i.
Pop_Keep(seq, i) == seq

Pop(seq, i) == SubSeq(seq, 1, i - 1) \o SubSeq(seq, i + 1, Len(seq))

\* The loop of select_winners_cryptographic, k draws to go: each draw takes
\* secrets.randbelow(len(available)), any index of the list, pops it and
\* appends the popped element.  The set of the lists the loop can return.
RECURSIVE Draws(_, _, _)
Draws(available, selected, k) ==
    IF k = 0 \/ Len(available) = 0
    THEN {selected}
    ELSE UNION { Draws(Pop(available, i), Append(selected, available[i]),
                       k - 1) : i \in 1..Len(available) }

\* WinnerSelector.select_winners_cryptographic(participants, winner_count):
\* the set of the lists it can return.
select_winners_cryptographic(ps, winner_count) ==
    IF Len(ps) = 0 THEN {<<>>}
    ELSE IF winner_count >= Len(ps) THEN {ps}
    ELSE IF winner_count <= 0 THEN {<<>>}
    ELSE Draws(ps, <<>>, winner_count)

\* --------------------------------------------------------- select_winners
\* The JSON number a request carries as winner_count: whole, or whole + 0.5.
Whole(k) == [whole |-> k, half |-> FALSE]
AndAHalf(k) == [whole |-> k, half |-> TRUE]

\* int(winner_count): a non-negative number is cut to its whole part.
int(x) == x.whole

\* The Integer column winner_count_requested, assigned the JSON number:
\* the store rounds it to the nearest integer, a half away from zero.
IntegerColumn(x) == IF x.half THEN x.whole + 1 ELSE x.whole

\* InputValidator.validate_winner_count: the error_code, "" when valid.
validate_winner_count(x) ==
    IF int(x) < 1 THEN "INVALID_WINNER_COUNT_MIN"
    ELSE IF int(x) > max_winner_count THEN "INVALID_WINNER_COUNT_MAX"
    ELSE ""

\* Participant.query.filter_by(giveaway_id=g, captcha_completed=True,
\* subscription_verified=True).all(): the ids of the rows, in id order.
EligibleParticipants_All(ps, g) == [i \in 1..Len(ps) |-> i]

EligibleParticipants(ps, g) ==
    LET eligible(i) == /\ ps[i].giveaway_id = g
                       /\ ps[i].captcha_completed
                       /\ ps[i].subscription_verified
    IN SelectSeq([i \in 1..Len(ps) |-> i], eligible)

\* next(p for p in eligible_participants if p.user_id == user_id)
FirstOfUser(ps, pool, u) ==
    pool[CHOOSE k \in 1..Len(pool) :
             /\ ps[pool[k]].user_id = u
             /\ \A j \in 1..(k - 1) : ps[pool[j]].user_id # u]

\* winner_selection.py:103-110: the selection_method WinnerSelector
\* .select_winners reports for the mode it ran.
SelectionMethod_Seeded(use_seed) == "deterministic_seed"

SelectionMethod(use_seed) ==
    IF use_seed THEN "deterministic_seed" ELSE "cryptographic_random"

\* WinnerSelectionLog.create_log.  `pool`, `flagged` and `algorithm` are
\* history fields: the eligible rows the run read, the rows it set
\* is_winner on and the draw that chose them.
create_log(g, total, requested, selected_user_ids, selection_method, pool, flagged, algorithm) ==
    [giveaway_id |-> g, total_participants |-> total,
     winner_count_requested |-> requested,
     winner_count_selected |-> Len(selected_user_ids),
     selection_method |-> selection_method,
     selected_user_ids |-> selected_user_ids,
     pool |-> pool, flagged |-> flagged, algorithm |-> algorithm]

\* participants.py:204-281: validation, the eligible pool, the clamp of
\* winner_count, the draw, and the lookup of the winners' records.  The
\* log is given data.get('winner_count', 1), the number as it was sent.
\* The draw is winner_selector.select_winners(ids, count): use_seed is left
\* at its default and the request cannot set it.
select_winners_read(r, g, n) ==
    /\ Free(r)
    /\ UNCHANGED <<store, now, draw>>
    /\ LET pool == EligibleParticipants(participants, g)
           user_ids == [k \in 1..Len(pool) |-> participants[pool[k]].user_id]
       IN IF ~validate_giveaway_id(g)
          THEN Respond(r, "select", 0, g, "INVALID_INPUT", "none")
          ELSE IF validate_winner_count(n) # ""
          THEN Respond(r, "select", 0, g, validate_winner_count(n), "none")
          ELSE IF Len(pool) = 0
          THEN Respond(r, "select", 0, g, "INSUFFICIENT_PARTICIPANTS", "none")
          ELSE \E w \in select_winners_cryptographic(user_ids,
                                                Min(int(n), Len(pool))) :
                   Continue(r, [Idle EXCEPT
                       !.pc = "select_commit", !.giveaway = g,
                       !.pool = pool, !.selected = w,
                       !.method = SelectionMethod(FALSE),
                       !.count = IntegerColumn(n),
                       !.recs = [u \in Users |->
                                   IF u \in Range(w) THEN records[u]
                                   ELSE NoRecord]])

\* participants.py:252-256: participant.is_winner = True (and
\* winner_selected_at) on the rows of the pool the draw picked.
FlagWinners_Every(ps, flagged) ==
    [i \in 1..Len(ps) |-> [ps[i] EXCEPT !.is_winner = TRUE]]

FlagWinners(ps, flagged) ==
    [i \in 1..Len(ps) |->
        IF i \in flagged THEN [ps[i] EXCEPT !.is_winner = TRUE] ELSE ps[i]]

\* participants.py:276-281: total_wins of every winner that has a record is
\* written as the loaded value plus one.
WinsAfterCommit_Skip(rs, selected, recs) == rs

WinsAfterCommit(rs, selected, recs) ==
    [u \in Users |->
        IF u \in Range(selected) /\ recs[u].exists
        THEN [rs[u] EXCEPT !.total_wins = recs[u].total_wins + 1]
        ELSE rs[u]]

\* participants.py:251-302: the winners' rows are flagged, the log row is
\* added, the winners' total_wins are written; one db.session.commit().  A
\* commit that raises ends in the handler's db.session.rollback().
select_winners_commit(r) ==
    /\ req[r].pc = "select_commit"
    /\ UNCHANGED <<sessions, now, draw>>
    /\ \/ /\ Len(logs) < MaxLogs
          /\ LET flagged == {FirstOfUser(participants, req[r].pool, u) :
                                u \in Range(req[r].selected)}
             IN /\ participants' = FlagWinners(participants, flagged)
                /\ logs' = Append(logs, create_log(req[r].giveaway,
                                        Len(req[r].pool), req[r].count,
                                        req[r].selected, req[r].method,
                                        req[r].pool, flagged,
                                        "secrets.randbelow"))
          /\ records' = WinsAfterCommit(records, req[r].selected, req[r].recs)
          /\ ReplySelected(r, "select", req[r].method)
       \/ /\ Reply(r, "select", "SELECTION_ERROR", "commit_failed")
          /\ UNCHANGED <<participants, records, logs>>

\* winner_selection_log.py:10-18: the attributes of class WinnerSelectionLog.
WinnerSelectionLogColumns ==
    {"id", "giveaway_id", "total_participants", "winner_count_requested",
     "winner_count_selected", "selection_method", "selection_seed",
     "selected_user_ids", "selection_timestamp"}

\* bot_service_final.py:460-468 (participants_enhanced.py:407-415): the
\* keywords the handler passes to WinnerSelectionLog(...).
SelectWinnersV2Keywords ==
    {"giveaway_id", "total_participants", "winner_count_requested",
     "winner_count_selected", "selection_method", "winner_user_ids",
     "selection_timestamp"}

\* The constructor of a model class raises TypeError for a keyword that is
\* no attribute of the class.
InvalidKeyword_Never(keywords, columns) == FALSE

InvalidKeyword(keywords, columns) == ~(keywords \subseteq columns)

\* data.get('selection_method', 'cryptographic_random'): what a request
\* may carry.
RequestedMethods == {"cryptographic_random", "deterministic_seed"}

\* min(winner_count, total_participants), winner_count a JSON number.
MinNumber(x, total) == IF x.whole >= total THEN Whole(total) ELSE x

\* The least number of elements a set has when `len(s) < x` is false.
Ceiling(x) == IF x.half THEN x.whole + 1 ELSE Max(x.whole, 0)

\* bot_service_final.py:441-447: the loop adds secrets.randbelow(n) to the
\* set selected_indices while len(selected_indices) < actual_winner_count.
\* The sets the loop can end with (indices from 0).
IndexSetLoop(n, actual_winner_count) ==
    {S \in SUBSET (0..(n - 1)) :
        Cardinality(S) = Ceiling(actual_winner_count)}

\* bot_service_final.py:395-501 (participants_enhanced.py:350-445): the
\* pool is read, the winners are drawn and flagged in the session, and the
\* log is built as WinnerSelectionLog(winner_user_ids=...); the model class
\* has no such attribute, the constructor raises and the handler rolls
\* back.  Were the log built, it would carry the selection_method of the
\* request and the handler would commit and answer with it.
select_winners_v2(r, g, n, m) ==
    /\ Free(r)
    /\ UNCHANGED <<sessions, now, draw>>
    /\ LET pool == EligibleParticipants(participants, g)
           total == Len(pool)
           actual == MinNumber(n, total)
       IN IF g = 0
          THEN /\ Respond(r, "select_v2", 0, g, "MISSING_FIELD", "none")
               /\ UNCHANGED <<participants, records, logs>>
          ELSE IF total = 0
          THEN /\ Respond(r, "select_v2", 0, g, "NO_PARTICIPANTS", "none")
               /\ UNCHANGED <<participants, records, logs>>
          ELSE IF InvalidKeyword(SelectWinnersV2Keywords,
                                 WinnerSelectionLogColumns)
          THEN /\ Respond(r, "select_v2", 0, g, "WINNER_SELECTION_ERROR",
                          "invalid_keyword")
               /\ UNCHANGED <<participants, records, logs>>
          ELSE /\ Len(logs) < MaxLogs
               /\ \E S \in IndexSetLoop(total, actual) :
                      LET flagged == {pool[i + 1] : i \in S}
                          winner_user_ids ==
                              [k \in 1..Cardinality(flagged) |->
                                  participants[SelectSeq(pool, LAMBDA x :
                                      x \in flagged)[k]].user_id]
                      IN /\ participants' = FlagWinners(participants, flagged)
                         /\ logs' = Append(logs,
                                [create_log(g, total, IntegerColumn(n),
                                            winner_user_ids, m, pool, flagged,
                                            "secrets.randbelow")
                                 EXCEPT !.winner_count_selected =
                                            IntegerColumn(actual)])
                         /\ records' = WinsAfterCommit(records,
                                            winner_user_ids, records)
               /\ req' = [req EXCEPT ![r] = Idle]
               /\ last' = [NoResponse EXCEPT !.op = "select_v2",
                                             !.giveaway = g,
                                             !.code = "WINNERS_SELECTED",
                                             !.selection_method = m]

\* -------------------------------------------------- update_delivery_status
\* participants.py:405-468, with participant_ids = [id] (id = 0: the empty
\* list): the row is loaded, its delivery columns are set, one commit.
\* participants.py:439-441: the delivery columns of the loaded row.
DeliveryUpdate_ClearsWinner(p, delivered) ==
    [p EXCEPT !.message_delivered = delivered,
              !.delivery_attempts = @ + 1,
              !.is_winner = FALSE]

DeliveryUpdate(p, delivered) ==
    [p EXCEPT !.message_delivered = delivered,
              !.delivery_attempts = @ + 1]

update_delivery_status(r, id, delivered) ==
    /\ Free(r)
    /\ UNCHANGED <<records, sessions, logs, now, draw>>
    /\ IF id = 0
       THEN /\ Respond(r, "delivery", 0, 0, "MISSING_PARTICIPANT_IDS", "none")
            /\ UNCHANGED participants
       ELSE IF id \notin 1..Len(participants)
       THEN /\ Respond(r, "delivery", 0, 0, "UPDATED", "not_found")
            /\ UNCHANGED participants
       ELSE /\ participants[id].delivery_attempts < MaxDeliveries
            /\ participants' =
                   [participants EXCEPT
                       ![id] = DeliveryUpdate(participants[id], delivered)]
            /\ Respond(r, "delivery", participants[id].user_id,
                       participants[id].giveaway_id, "UPDATED", "none")

\* ------------------------------------------------ cleanup_expired_sessions
\* captcha.py:313-332 and CleanupTasks.cleanup_expired_captcha_sessions:
\* every row with expires_at < utcnow() is deleted.
\* CaptchaSession.query.filter(CaptchaSession.expires_at < datetime.utcnow())
ExpiredFilter_All(s, t) == TRUE

ExpiredFilter(s, t) == s.expires_at < t

cleanup_expired_sessions ==
    /\ \E i \in 1..Len(sessions) :
           sessions[i].live /\ ExpiredFilter(sessions[i], now)
    /\ sessions' = [i \in 1..Len(sessions) |->
                      IF sessions[i].live /\ ExpiredFilter(sessions[i], now)
                      THEN DeletedSession(sessions[i]) ELSE sessions[i]]
    /\ last' = NoResponse
    /\ UNCHANGED <<participants, records, logs, now, req, draw>>

\* CaptchaSession.created_at (default utcnow) of a row create_session
\* made: the expiry less the timeout.
created_at(s) == s.expires_at - TimeoutMinutes

\* CleanupTasks.cleanup_old_captcha_sessions(days_old=7), called by
\* run_all_cleanup_tasks: every row created before utcnow() - 7 days is
\* deleted, completed or not.
cleanup_old_captcha_sessions ==
    /\ \E i \in 1..Len(sessions) :
           sessions[i].live /\ created_at(sessions[i]) < now - RetentionMinutes
    /\ sessions' = [i \in 1..Len(sessions) |->
                      IF /\ sessions[i].live
                         /\ created_at(sessions[i]) < now - RetentionMinutes
                      THEN DeletedSession(sessions[i]) ELSE sessions[i]]
    /\ last' = NoResponse
    /\ UNCHANGED <<participants, records, logs, now, req, draw>>

\* ------------------------------------------------------------------ time
\* Time passes: long enough for every session issued so far to expire.
Tick ==
    /\ now + TimeoutMinutes + 1 <= MaxNow
    /\ now' = now + TimeoutMinutes + 1
    /\ last' = NoResponse
    /\ UNCHANGED <<store, req, draw>>

\* Time passes: longer than the retention period of the old-session sweep.
\* The clock makes this step while it is within its bound, once.
TickRetention ==
    /\ now <= MaxNow
    /\ now' = now + RetentionMinutes + 1
    /\ last' = NoResponse
    /\ UNCHANGED <<store, req, draw>>

\* --------------------------------------------------------- specification
\* No stand-alone call of the selector is under way.
NoDraw ==
    [pc |-> "off", participants |-> <<>>, winner_count |-> 0,
     winners |-> <<>>]

Init ==
    /\ participants = <<>>
    /\ records = [u \in Users |-> NoRecord]
    /\ sessions = <<>>
    /\ logs = <<>>
    /\ now = 0
    /\ req = [r \in Reqs |-> Idle]
    /\ last = NoResponse
    /\ draw = NoDraw

\* The captcha and registration handlers of one (user, giveaway) pair, two
\* requests in flight; the clock stands still.
Next ==
    \/ \E r \in Reqs, u \in UserInputs, g \in CaptchaGiveaways :
           register_check(r, u, g)
    \/ \E r \in Reqs, q \in Questions : register_issue(r, q)
    \/ \E r \in Reqs : register_commit(r)
    \/ \E r \in Reqs, u \in UserInputs, g \in CaptchaGiveaways :
           register_participant_v2_check(r, u, g)
    \/ \E r \in Reqs : register_participant_v2_commit(r)
    \/ \E r \in Reqs, u \in UserInputs, g \in CaptchaGiveaways :
           validate_captcha_v2(r, u, g)
    \/ \E r \in Reqs, u \in UserInputs, g \in CaptchaGiveaways,
          a \in AnswerInputs : validate_check(r, u, g, a)
    \/ \E r \in Reqs : validate_latch(r)
    \/ \E r \in Reqs : validate_register(r)
    \/ \E r \in Reqs : validate_commit(r)
    \/ \E r \in Reqs : validate_wrong(r)
    \/ \E r \in Reqs, q \in Questions : validate_regenerate(r, q)
    \/ \E r \in Reqs, u \in UserInputs, g \in CaptchaGiveaways :
           generate_check(r, u, g)
    \/ \E r \in Reqs, q \in Questions : generate_issue(r, q)

Spec == Init /\ [][Next]_vars

\* ------------------------------------------- specification: winner selection
\* The winner counts a select-winners request asks for.
WinnerCounts == {Whole(k) : k \in 0..MaxWinners} \cup {AndAHalf(1)}

\* Every user has passed the captcha and has no participation yet (the
\* state a correct answer leaves when the subscription check then fails).
InitWin ==
    /\ participants = <<>>
    /\ records = [u \in Users |-> NewRecord(0)]
    /\ sessions = <<>>
    /\ logs = <<>>
    /\ now = 0
    /\ req = [r \in Reqs |-> Idle]
    /\ last = NoResponse
    /\ draw = NoDraw

\* Registrations and winner selections of giveaway 1 by every user, two
\* requests in flight.
SelectGiveaways == {1}
SelectGiveawayInputs == SelectGiveaways \cup {0}

NextWin ==
    \/ \E r \in Reqs, u \in Users, g \in SelectGiveaways :
           register_check(r, u, g)
    \/ \E r \in Reqs : register_commit(r)
    \/ \E r \in Reqs, g \in SelectGiveawayInputs, n \in WinnerCounts :
           select_winners_read(r, g, n)
    \/ \E r \in Reqs : select_winners_commit(r)
    \/ \E r \in Reqs, g \in SelectGiveawayInputs, n \in WinnerCounts,
          m \in RequestedMethods : select_winners_v2(r, g, n, m)

SpecWin == InitWin /\ [][NextWin]_vars

\* ------------------------------------------ specification: the counters
\* Registrations of every user for every giveaway by both registration
\* handlers, two requests in flight.
NextCount ==
    \/ \E r \in Reqs, u \in Users, g \in Giveaways : register_check(r, u, g)
    \/ \E r \in Reqs : register_commit(r)
    \/ \E r \in Reqs, u \in Users, g \in Giveaways :
           register_participant_v2_check(r, u, g)
    \/ \E r \in Reqs : register_participant_v2_commit(r)

SpecCount == InitWin /\ [][NextCount]_vars


\* ------------------------------------- specification: one request at a time
\* Every operation of the service on user 1 and giveaway 1, the
\* requests served one after the other by a single worker, while the clock
\* advances and the cleanup sweep runs at any moment.
SeqWinnerCounts == {Whole(0), Whole(2)}

NextSeq ==
    \/ \E u \in UserInputs, g \in CaptchaGiveaways :
           register_check(1, u, g)
    \/ \E q \in Questions : register_issue(1, q)
    \/ register_commit(1)
    \/ \E u \in UserInputs, g \in CaptchaGiveaways :
           register_participant_v2_check(1, u, g)
    \/ register_participant_v2_commit(1)
    \/ \E u \in UserInputs, g \in CaptchaGiveaways :
           validate_captcha_v2(1, u, g)
    \/ \E u \in UserInputs, g \in CaptchaGiveaways, a \in AnswerInputs :
           validate_check(1, u, g, a)
    \/ validate_latch(1)
    \/ validate_register(1)
    \/ validate_commit(1)
    \/ validate_wrong(1)
    \/ \E q \in Questions : validate_regenerate(1, q)
    \/ \E u \in UserInputs, g \in CaptchaGiveaways :
           generate_check(1, u, g)
    \/ \E q \in Questions : generate_issue(1, q)
    \/ \E g \in CaptchaGiveawayInputs, n \in SeqWinnerCounts :
           select_winners_read(1, g, n)
    \/ select_winners_commit(1)
    \/ \E g \in CaptchaGiveawayInputs, n \in SeqWinnerCounts,
          m \in RequestedMethods : select_winners_v2(1, g, n, m)
    \/ \E id \in 0..(Len(participants) + 1), delivered \in BOOLEAN :
           update_delivery_status(1, id, delivered)
    \/ cleanup_expired_sessions
    \/ Tick

SpecSeq == Init /\ [][NextSeq]_vars


\* --------------------------------- specification: the selector on its own
\* The pools and winner counts select_winners_cryptographic is called with:
\* lists of ids, repeated ids included, and counts from below zero to above
\* the pool length.
PoolIds == {1, 2}
Pools == UNION {[1..n -> PoolIds] : n \in 0..MaxPool}
DrawCounts == (0 - 1)..(MaxPool + 1)

InitDraw ==
    /\ participants = <<>>
    /\ records = [u \in Users |-> NoRecord]
    /\ sessions = <<>>
    /\ logs = <<>>
    /\ now = 0
    /\ req = [r \in Reqs |-> Idle]
    /\ last = NoResponse
    /\ draw \in {[pc |-> "called", participants |-> ps, winner_count |-> n,
                  winners |-> <<>>] : ps \in Pools, n \in DrawCounts}

\* winner_selection.py:14-47: the call returns one of the lists it can.
select_winners_cryptographic_return ==
    /\ draw.pc = "called"
    /\ \E w \in select_winners_cryptographic(draw.participants,
                                             draw.winner_count) :
           draw' = [draw EXCEPT !.pc = "returned", !.winners = w]
    /\ UNCHANGED <<store, now, req, last>>

NextDraw == select_winners_cryptographic_return

SpecDraw == InitDraw /\ [][NextDraw]_vars


\* --------------------------- specification: the integrity check on its own
\* WinnerSelector.validate_selection_integrity called on the list a
\* selection returned, or on a list an auditor hands in (ids 1..3, so also
\* an id no pool has), together with the count that was requested.
AuditIds == {1, 2, 3}
AuditLists == UNION {[1..n -> AuditIds] : n \in 0..(MaxPool + 1)}

NoValidations ==
    [all_winners_are_participants |-> FALSE, no_duplicate_winners |-> FALSE,
     winner_count_reasonable |-> FALSE, winners_not_empty |-> FALSE,
     overall_valid |-> FALSE]

\* winner_selection.py:137-146
validate_selection_integrity(ps, winners) ==
    LET all_winners_are_participants ==
            \A k \in 1..Len(winners) :
                \E j \in 1..Len(ps) : ps[j] = winners[k]
        no_duplicate_winners == Len(winners) = Cardinality(Range(winners))
        winner_count_reasonable == Len(winners) <= Len(ps)
        winners_not_empty == IF Len(ps) > 0 THEN Len(winners) > 0 ELSE TRUE
    IN [all_winners_are_participants |-> all_winners_are_participants,
        no_duplicate_winners |-> no_duplicate_winners,
        winner_count_reasonable |-> winner_count_reasonable,
        winners_not_empty |-> winners_not_empty,
        overall_valid |-> /\ all_winners_are_participants
                          /\ no_duplicate_winners
                          /\ winner_count_reasonable
                          /\ winners_not_empty]

InitIntegrity ==
    /\ participants = <<>>
    /\ records = [u \in Users |-> NoRecord]
    /\ sessions = <<>>
    /\ logs = <<>>
    /\ now = 0
    /\ req = [r \in Reqs |-> Idle]
    /\ last = NoResponse
    /\ draw \in
         {[pc |-> "called", participants |-> ps, winner_count |-> n,
           winners |-> <<>>, validations |-> NoValidations] :
              ps \in Pools, n \in DrawCounts}
         \cup
         {[pc |-> "returned", participants |-> ps, winner_count |-> n,
           winners |-> w, validations |-> NoValidations] :
              ps \in Pools, n \in DrawCounts, w \in AuditLists}

validate_selection_integrity_return ==
    /\ draw.pc = "returned"
    /\ draw' = [draw EXCEPT
                   !.pc = "validated",
                   !.validations =
                       validate_selection_integrity(draw.participants,
                                                    draw.winners)]
    /\ UNCHANGED <<store, now, req, last>>

NextIntegrity ==
    \/ select_winners_cryptographic_return
    \/ validate_selection_integrity_return

SpecIntegrity == InitIntegrity /\ [][NextIntegrity]_vars


\* ------------------------------ specification: the chances of the draw
\* secrets.randbelow(n) reads n.bit_length() random bits, every value of
\* them equally likely, and reads again until the value is below n.
RECURSIVE BitLength(_)
BitLength(n) == IF n = 0 THEN 0 ELSE 1 + BitLength(n \div 2)

RawValues(n) == 0..(2 ^ BitLength(n) - 1)

\* The number of raw values for which secrets.randbelow(n) returns i.
randbelow_ways_Modulo(n, i) == Cardinality({r \in RawValues(n) : r % n = i})

randbelow_ways(n, i) == Cardinality({r \in RawValues(n) : r < n /\ r = i})

\* The number of raw values for which secrets.randbelow(n) returns.
DrawWays(n) ==
    LET sum[j \in 0..n] ==
            IF j = 0 THEN 0 ELSE sum[j - 1] + randbelow_ways(n, j - 1)
    IN sum[n]

\* The number of sequences of raw values that take the loop through k
\* draws from a list of n.
RECURSIVE AllWays(_, _)
AllWays(n, k) ==
    IF k = 0 \/ n = 0 THEN 1 ELSE DrawWays(n) * AllWays(n - 1, k - 1)

\* The number of those sequences for which the loop of
\* select_winners_cryptographic, k draws to go, selects e: a draw returns
\* index i, the element is popped and appended.
RECURSIVE SelectWays(_, _, _)
SelectWays(available, k, e) ==
    IF k = 0 \/ Len(available) = 0 THEN 0
    ELSE LET n == Len(available)
             term(i) ==
                 randbelow_ways(n, i) *
                     (IF available[i + 1] = e THEN AllWays(n - 1, k - 1)
                      ELSE SelectWays(Pop(available, i + 1), k - 1, e))
             sum[j \in 0..n] ==
                 IF j = 0 THEN 0 ELSE sum[j - 1] + term(j - 1)
         IN sum[n]

\* select_winners_cryptographic(participants, winner_count): of `total`
\* equally likely sequences of raw values, ways[e] select e.
SelectionWays(ps, winner_count) ==
    IF Len(ps) = 0 THEN [ways |-> [e \in Range(ps) |-> 0], total |-> 1]
    ELSE IF winner_count >= Len(ps)
    THEN [ways |-> [e \in Range(ps) |-> 1], total |-> 1]
    ELSE IF winner_count <= 0
    THEN [ways |-> [e \in Range(ps) |-> 0], total |-> 1]
    ELSE [ways |-> [e \in Range(ps) |-> SelectWays(ps, winner_count, e)],
          total |-> AllWays(Len(ps), winner_count)]

\* The pools 1..n and the counts of the calls.
FairPools == {[k \in 1..n |-> k] : n \in 0..MaxFairPool}
FairCounts == (0 - 1)..(MaxWinners + 1)

InitFair ==
    /\ participants = <<>>
    /\ records = [u \in Users |-> NoRecord]
    /\ sessions = <<>>
    /\ logs = <<>>
    /\ now = 0
    /\ req = [r \in Reqs |-> Idle]
    /\ last = NoResponse
    /\ draw \in {[pc |-> "called", participants |-> ps, winner_count |-> n,
                  ways |-> <<>>, total |-> 0] :
                     ps \in FairPools, n \in FairCounts}

\* winner_selection.py:14-47, every outcome of the call with its weight.
select_winners_cryptographic_chances ==
    /\ draw.pc = "called"
    /\ draw' = [draw EXCEPT
                   !.pc = "counted",
                   !.ways = SelectionWays(draw.participants,
                                          draw.winner_count).ways,
                   !.total = SelectionWays(draw.participants,
                                           draw.winner_count).total]
    /\ UNCHANGED <<store, now, req, last>>

NextFair == select_winners_cryptographic_chances

SpecFair == InitFair /\ [][NextFair]_vars


\* ----------------------------- specification: the question generator alone
\* CaptchaGenerator.generate_question under a configured operand range
\* (CAPTCHA_MIN_NUMBER, CAPTCHA_MAX_NUMBER), min_number <= max_number.
MinNumbers == 0..2
OperandRanges ==
    {cfg \in [min_number : MinNumbers, max_number : 0..MaxNumber] :
        cfg.min_number <= cfg.max_number}

\* random.randint(a, b): the values it can return; none when a > b, where
\* it raises ValueError.
randint(a, b) == a..b

\* The call ended in the ValueError of an empty range.
Raised ==
    [raised |-> TRUE, num1 |-> 0, symbol |-> "", num2 |-> 0, answer |-> 0]

\* The question "What is {num1} {symbol} {num2}?" with its answer.
Question(num1, symbol, num2, answer) ==
    [raised |-> FALSE, num1 |-> num1, symbol |-> symbol, num2 |-> num2,
     answer |-> answer]

\* captcha_generator.py:12-20
generate_addition_question(cfg) ==
    IF randint(cfg.min_number, cfg.max_number) = {} THEN {Raised}
    ELSE {Question(num1, "+", num2, num1 + num2) :
             num1 \in randint(cfg.min_number, cfg.max_number),
             num2 \in randint(cfg.min_number, cfg.max_number)}

\* captcha_generator.py:22-30
generate_subtraction_question(cfg) ==
    IF randint(cfg.min_number + 2, cfg.max_number) = {} THEN {Raised}
    ELSE UNION
         {IF randint(cfg.min_number, num1 - 1) = {} THEN {Raised}
          ELSE {Question(num1, "-", num2, num1 - num2) :
                   num2 \in randint(cfg.min_number, num1 - 1)} :
             num1 \in randint(cfg.min_number + 2, cfg.max_number)}

\* captcha_generator.py:32-42; "*" stands for the multiplication sign.
generate_multiplication_question(cfg) ==
    LET max_mult == Min(5, cfg.max_number) IN
    IF randint(1, max_mult) = {} THEN {Raised}
    ELSE {Question(num1, "*", num2, num1 * num2) :
             num1 \in randint(1, max_mult), num2 \in randint(1, max_mult)}

InitQuestion ==
    /\ participants = <<>>
    /\ records = [u \in Users |-> NoRecord]
    /\ sessions = <<>>
    /\ logs = <<>>
    /\ now = 0
    /\ req = [r \in Reqs |-> Idle]
    /\ last = NoResponse
    /\ draw \in {[pc |-> "called", config |-> cfg, result |-> Raised] :
                     cfg \in OperandRanges}

\* captcha_generator.py:44-56: random.choices picks one of the three
\* generators (each has a positive weight) and the call returns what the
\* generator returns, or ends in its exception.
generate_question_return ==
    /\ draw.pc = "called"
    /\ \E result \in generate_addition_question(draw.config)
                        \cup generate_subtraction_question(draw.config)
                        \cup generate_multiplication_question(draw.config) :
           draw' = [draw EXCEPT !.pc = "returned", !.result = result]
    /\ UNCHANGED <<store, now, req, last>>

NextQuestion == generate_question_return

SpecQuestion == InitQuestion /\ [][NextQuestion]_vars


\* ------------------------- specification: the selector and a missing pool
\* select_winners_cryptographic called with a list or with None as its
\* participants argument.
NoneArgument == [is_none |-> TRUE, list |-> <<>>]
ListArgument(ps) == [is_none |-> FALSE, list |-> ps]
PoolArguments == {NoneArgument} \cup {ListArgument(ps) : ps \in Pools}

\* `not participants`: None and the empty list are false.
NotParticipants(arg) == arg.is_none \/ Len(arg.list) = 0

\* The call returned `winners`, or ended in the exception `error`.
Returned(winners) == [error |-> "", winners |-> winners]
RaisedError(error) == [error |-> error, winners |-> <<>>]

\* winner_selection.py:25-47 with the argument as it was passed: the first
\* test returns [] for an argument that is false; len() of None, which
\* would raise TypeError, comes after it.
select_winners_cryptographic_outcomes(arg, winner_count) ==
    IF NotParticipants(arg) THEN {Returned(<<>>)}
    ELSE IF arg.is_none THEN {RaisedError("TypeError")}
    ELSE {Returned(w) :
             w \in select_winners_cryptographic(arg.list, winner_count)}

InitArguments ==
    /\ participants = <<>>
    /\ records = [u \in Users |-> NoRecord]
    /\ sessions = <<>>
    /\ logs = <<>>
    /\ now = 0
    /\ req = [r \in Reqs |-> Idle]
    /\ last = NoResponse
    /\ draw \in {[pc |-> "called", argument |-> arg, winner_count |-> n,
                  outcome |-> Returned(<<>>)] :
                     arg \in PoolArguments, n \in DrawCounts}

select_winners_cryptographic_ends ==
    /\ draw.pc = "called"
    /\ \E o \in select_winners_cryptographic_outcomes(draw.argument,
                                                      draw.winner_count) :
           draw' = [draw EXCEPT !.pc = "ended", !.outcome = o]
    /\ UNCHANGED <<store, now, req, last>>

NextArguments == select_winners_cryptographic_ends

SpecArguments == InitArguments /\ [][NextArguments]_vars


\* ------------------------------ specification: the draw loops, step by step
\* The pool of a call: n participants with the ids 1..n.
LoopPools == {[i \in 1..n |-> i] : n \in 0..MaxPool}

\* The winner_count values POST /api/v2/participants/select-winners is sent:
\* the handler checks only that the field is present.
LoopCounts ==
    {Whole(k) : k \in (0 - 1)..(MaxPool + 1)} \cup {AndAHalf(1)}

\* A call that has not returned: `k` iterations of the for loop are left,
\* `draws` values were drawn.
LoopCall(fn, ps, winner_count) ==
    [pc |-> "called", fn |-> fn, participants |-> ps,
     winner_count |-> winner_count, available |-> <<>>, selected |-> <<>>,
     k |-> 0, selected_indices |-> {}, draws |-> 0]

InitLoop ==
    /\ participants = <<>>
    /\ records = [u \in Users |-> NoRecord]
    /\ sessions = <<>>
    /\ logs = <<>>
    /\ now = 0
    /\ req = [r \in Reqs |-> Idle]
    /\ last = NoResponse
    /\ draw \in
         {LoopCall("select_winners_cryptographic", ps, Whole(n)) :
              ps \in LoopPools, n \in DrawCounts}
         \cup {LoopCall("select_winners_v2", ps, n) :
                   ps \in LoopPools \ {<<>>}, n \in LoopCounts}

\* winner_selection.py:25-36: the early returns, then the copy of the list.
select_winners_cryptographic_enter ==
    /\ draw.pc = "called"
    /\ draw.fn = "select_winners_cryptographic"
    /\ UNCHANGED <<store, now, req, last>>
    /\ LET ps == draw.participants
           n == int(draw.winner_count)
       IN IF Len(ps) = 0
          THEN draw' = [draw EXCEPT !.pc = "returned"]
          ELSE IF n >= Len(ps)
          THEN draw' = [draw EXCEPT !.pc = "returned", !.selected = ps]
          ELSE IF n <= 0
          THEN draw' = [draw EXCEPT !.pc = "returned"]
          ELSE draw' = [draw EXCEPT !.pc = "for", !.available = ps, !.k = n]

\* winner_selection.py:38-47: one iteration of `for _ in range(winner_count)`
\* (break on an empty list), and the return after the last one.
select_winners_cryptographic_draw ==
    /\ draw.pc = "for"
    /\ UNCHANGED <<store, now, req, last>>
    /\ IF draw.k = 0 \/ Len(draw.available) = 0
       THEN draw' = [draw EXCEPT !.pc = "returned"]
       ELSE \E i \in 1..Len(draw.available) :
                draw' = [draw EXCEPT
                            !.available = Pop(draw.available, i),
                            !.selected = Append(@, draw.available[i]),
                            !.k = @ - 1, !.draws = @ + 1]

\* bot_service_final.py:437-445: actual_winner_count and the empty set.
select_winners_v2_enter ==
    /\ draw.pc = "called"
    /\ draw.fn = "select_winners_v2"
    /\ UNCHANGED <<store, now, req, last>>
    /\ draw' = [draw EXCEPT !.pc = "while"]

\* bot_service_final.py:444-449: one round of `while len(selected_indices) <
\* actual_winner_count`, which adds secrets.randbelow(len(participant_ids))
\* to the set; when the condition is false the ids at the selected indices
\* are taken.
select_winners_v2_draw ==
    /\ draw.pc = "while"
    /\ UNCHANGED <<store, now, req, last>>
    /\ LET n == Len(draw.participants)
           actual == MinNumber(draw.winner_count, n)
       IN IF Cardinality(draw.selected_indices) < Ceiling(actual)
          THEN \E i \in 0..(n - 1) :
                   draw' = [draw EXCEPT !.selected_indices = @ \cup {i}]
          ELSE draw' = [draw EXCEPT
                           !.pc = "returned",
                           !.selected =
                               SelectSeq(draw.participants,
                                   LAMBDA id : (id - 1) \in draw.selected_indices)]

NextLoop ==
    \/ select_winners_cryptographic_enter
    \/ select_winners_cryptographic_draw
    \/ select_winners_v2_enter
    \/ select_winners_v2_draw

SpecLoop == InitLoop /\ [][NextLoop]_vars


\* ------------------------- specification: the selector called from threads
\* WinnerSelector.select_winners and select_winners_with_seed called from
\* the threads of one process, next to captcha generation.  The module
\* `random` is one generator shared by the process: random.seed sets its
\* state, every value drawn advances it.  The state is the seed last set
\* and the number of values drawn since; a value is a function of the state.
Threads == {1, 2}
SeedPools == {<<>>, <<1, 2, 3>>}
SeedCounts == {0, 2, 4}
Seeds == {"a", "b"}
CustomSeeds == {None, "", "a"}

\* The value secrets.token_bytes and the clock give generate_selection_seed.
GeneratedSeeds == {"sha256"}

\* The generator as the interpreter starts it: seeded from the system.
SystemRandom == [seed |-> "os", n |-> 0]

SeedValue(seed) ==
    IF seed = "a" THEN 1 ELSE IF seed = "b" THEN 2
    ELSE IF seed = "sha256" THEN 3 ELSE 0

\* random's _randbelow(k) in state rnd: a value below k that the state
\* determines.
randbelow(rnd, k) == (SeedValue(rnd.seed) * 7 + rnd.n * 5 + 3) % k

\* The state after `draws` values were drawn.
Advance(rnd, draws) == [rnd EXCEPT !.n = @ + draws]

\* x[i], x[j] = x[j], x[i]
Swap(x, i, j) == [x EXCEPT ![i] = x[j], ![j] = x[i]]

NoResult ==
    [winners |-> <<>>, total_participants |-> 0 - 1,
     winner_count_requested |-> 0 - 1, winner_count_selected |-> 0 - 1,
     selection_method |-> "", selection_seed |-> None]

\* A thread that has not called the selector.
IdleCall ==
    [pc |-> "idle", fn |-> "none", participants |-> <<>>,
     winner_count |-> 0, use_seed |-> FALSE, custom_seed |-> None,
     seed |-> None, available |-> <<>>, i |-> 0, winners |-> <<>>,
     result |-> NoResult]

\* winner_selection.py:113-123: the dictionary select_winners returns
\* (selection_timestamp left out).
SelectionResult(ps, winner_count, winners, method, seed) ==
    [winners |-> winners, total_participants |-> Len(ps),
     winner_count_requested |-> winner_count,
     winner_count_selected |-> Len(winners),
     selection_method |-> method, selection_seed |-> seed]

\* The thread returns `winners` from select_winners_with_seed, and from
\* select_winners when the call came through it.
ReturnSeeded(c, winners) ==
    [c EXCEPT !.pc = "returned", !.winners = winners,
              !.result = IF c.fn = "select_winners"
                         THEN SelectionResult(c.participants, c.winner_count,
                                  winners, "deterministic_seed", c.seed)
                         ELSE NoResult]

\* `custom_seed or self.generate_selection_seed(0)`: None and the empty
\* string are false.
SeedUsed(custom_seed, generated) ==
    IF custom_seed = None \/ custom_seed = "" THEN generated ELSE custom_seed

\* A caller invokes select_winners_with_seed(participants, winner_count, seed).
select_winners_with_seed_call(t, ps, n, seed) ==
    /\ draw.call[t].pc \in {"idle", "returned"}
    /\ draw' = [draw EXCEPT !.call[t] =
                   [IdleCall EXCEPT !.pc = "enter",
                                    !.fn = "select_winners_with_seed",
                                    !.participants = ps, !.winner_count = n,
                                    !.use_seed = TRUE, !.seed = seed]]
    /\ UNCHANGED <<store, now, req, last>>

\* winner_selection.py:92-111: select_winners picks the mode; the default
\* mode draws with select_winners_cryptographic and returns.
select_winners(t, ps, n, use_seed, custom_seed) ==
    /\ draw.call[t].pc \in {"idle", "returned"}
    /\ UNCHANGED <<store, now, req, last>>
    /\ LET c == [IdleCall EXCEPT !.fn = "select_winners",
                                 !.participants = ps, !.winner_count = n,
                                 !.use_seed = use_seed,
                                 !.custom_seed = custom_seed]
       IN IF use_seed
          THEN \E g \in GeneratedSeeds :
                   draw' = [draw EXCEPT !.call[t] =
                               [c EXCEPT !.pc = "enter",
                                         !.seed = SeedUsed(custom_seed, g)]]
          ELSE \E w \in select_winners_cryptographic(ps, n) :
                   draw' = [draw EXCEPT !.call[t] =
                               [c EXCEPT !.pc = "returned", !.winners = w,
                                         !.result = SelectionResult(ps, n, w,
                                             "cryptographic_random", None)]]

\* winner_selection.py:61-75: the early returns, then random.seed(seed) and
\* the copy of the list.
select_winners_with_seed_seed(t) ==
    /\ draw.call[t].pc = "enter"
    /\ UNCHANGED <<store, now, req, last>>
    /\ LET c == draw.call[t] IN
       IF Len(c.participants) = 0
       THEN draw' = [draw EXCEPT !.call[t] = ReturnSeeded(c, <<>>)]
       ELSE IF c.winner_count >= Len(c.participants)
       THEN draw' = [draw EXCEPT !.call[t] = ReturnSeeded(c, c.participants)]
       ELSE IF c.winner_count <= 0
       THEN draw' = [draw EXCEPT !.call[t] = ReturnSeeded(c, <<>>)]
       ELSE draw' = [draw EXCEPT
                        !.random = [seed |-> c.seed, n |-> 0],
                        !.call[t] = [c EXCEPT !.pc = "shuffle",
                                              !.available = c.participants,
                                              !.i = Len(c.participants)]]

\* winner_selection.py:76: one round of random.shuffle, which walks i from
\* the last position down to the second and swaps x[i] with x[j], j a
\* value below i + 1; after the last round the first winner_count elements
\* are returned (line 79).
select_winners_with_seed_shuffle(t) ==
    /\ draw.call[t].pc = "shuffle"
    /\ UNCHANGED <<store, now, req, last>>
    /\ LET c == draw.call[t] IN
       IF c.i >= 2
       THEN draw' = [draw EXCEPT
                        !.random = Advance(draw.random, 1),
                        !.call[t] = [c EXCEPT
                            !.available = Swap(c.available, c.i,
                                               randbelow(draw.random, c.i) + 1),
                            !.i = c.i - 1]]
       ELSE draw' = [draw EXCEPT !.call[t] =
                        ReturnSeeded(c, SubSeq(c.available, 1, c.winner_count))]

\* captcha_generator.py:45-56: CaptchaGenerator.generate_question draws
\* three values (the question type, num1, num2) from the same generator.
generate_question ==
    /\ \E t \in Threads : draw.call[t].pc \in {"idle", "returned"}
    /\ draw.random.n + 3 <= MaxDraws
    /\ draw' = [draw EXCEPT !.random = Advance(draw.random, 3)]
    /\ UNCHANGED <<store, now, req, last>>

InitSelector ==
    /\ participants = <<>>
    /\ records = [u \in Users |-> NoRecord]
    /\ sessions = <<>>
    /\ logs = <<>>
    /\ now = 0
    /\ req = [r \in Reqs |-> Idle]
    /\ last = NoResponse
    /\ draw = [random |-> SystemRandom, call |-> [t \in Threads |-> IdleCall]]

NextSelector ==
    \/ \E t \in Threads, ps \in SeedPools, n \in SeedCounts, seed \in Seeds :
           select_winners_with_seed_call(t, ps, n, seed)
    \/ \E t \in Threads, ps \in SeedPools, n \in SeedCounts,
          use_seed \in BOOLEAN, custom_seed \in CustomSeeds :
           select_winners(t, ps, n, use_seed, custom_seed)
    \/ \E t \in Threads : select_winners_with_seed_seed(t)
    \/ \E t \in Threads : select_winners_with_seed_shuffle(t)
    \/ generate_question

SpecSelector == InitSelector /\ [][NextSelector]_vars


\* ------------------------------ specification: validate_answer on its own
\* The texts validate_answer is called with, each with what it says: the
\* integer it denotes, or that it denotes none.
AnswerCases ==
    {[text |-> <<"3">>, number |-> TRUE, value |-> 3],
     [text |-> <<" ", "3">>, number |-> TRUE, value |-> 3],
     [text |-> <<"\t", "1", "2", " ", "\n">>, number |-> TRUE, value |-> 12],
     [text |-> <<"0", "7">>, number |-> TRUE, value |-> 7],
     [text |-> <<"+", "5">>, number |-> TRUE, value |-> 5],
     [text |-> <<"-", "3">>, number |-> TRUE, value |-> 0 - 3],
     [text |-> <<"1", " ", "2">>, number |-> FALSE, value |-> 0],
     [text |-> <<"3", ".", "0">>, number |-> FALSE, value |-> 0],
     [text |-> <<"x">>, number |-> FALSE, value |-> 0],
     [text |-> <<"-">>, number |-> FALSE, value |-> 0],
     [text |-> <<" ">>, number |-> FALSE, value |-> 0],
     [text |-> <<>>, number |-> FALSE, value |-> 0],
     [text |-> NoAnswer, number |-> FALSE, value |-> 0]}

\* The correct answers a session holds.
CorrectAnswers == 0..MaxAnswer

InitAnswer ==
    /\ participants = <<>>
    /\ records = [u \in Users |-> NoRecord]
    /\ sessions = <<>>
    /\ logs = <<>>
    /\ now = 0
    /\ req = [r \in Reqs |-> Idle]
    /\ last = NoResponse
    /\ draw \in {[pc |-> "called", case |-> c, correct_answer |-> k,
                  returned |-> FALSE] :
                     c \in AnswerCases, k \in CorrectAnswers}

\* captcha_generator.py:58-64: the call returns.
validate_answer_return ==
    /\ draw.pc = "called"
    /\ draw' = [draw EXCEPT
                   !.pc = "returned",
                   !.returned = validate_answer(draw.case.text,
                                                draw.correct_answer)]
    /\ UNCHANGED <<store, now, req, last>>

NextAnswer == validate_answer_return

SpecAnswer == InitAnswer /\ [][NextAnswer]_vars


\* ------------------------------ specification: a user who keeps trying
\* The captcha and registration handlers for user 1 and giveaway 1, one
\* request at a time, with the clock and the cleanup sweep.
NextLive ==
    \/ \E u \in UserInputs, g \in CaptchaGiveaways : register_check(1, u, g)
    \/ \E q \in Questions : register_issue(1, q)
    \/ register_commit(1)
    \/ \E u \in UserInputs, g \in CaptchaGiveaways, a \in AnswerInputs :
           validate_check(1, u, g, a)
    \/ validate_latch(1)
    \/ validate_register(1)
    \/ validate_commit(1)
    \/ validate_wrong(1)
    \/ \E q \in Questions : validate_regenerate(1, q)
    \/ \E u \in UserInputs, g \in CaptchaGiveaways : generate_check(1, u, g)
    \/ \E q \in Questions : generate_issue(1, q)
    \/ cleanup_expired_sessions
    \/ Tick

\* The pair has a question to answer: its newest uncompleted session can
\* be attempted.
ActiveSession(ss, u, g, t) ==
    /\ FindSession(ss, u, g) # 0
    /\ can_attempt(ss[FindSession(ss, u, g)], t)

\* The steps of a subscribed user of an active giveaway who does the right
\* thing: registers when no question is presented (the giveaway is found
\* active, the verifier answers subscribed), answers the presented question
\* correctly; and the steps that finish a request in flight.
UserRegisters ==
    /\ ~ActiveSession(sessions, 1, 1, now)
    /\ register_check(1, 1, 1)
    /\ req'[1].pc \in {"register_issue", "register_commit"}

UserAnswersCorrectly ==
    /\ \E a \in AnswerInputs : validate_check(1, 1, 1, a)
    /\ req'[1].pc = "validate_latch"

UserVerified == validate_latch(1) /\ last'.code \notin ExtFailures

RequestFinishes ==
    \/ \E q \in Questions : register_issue(1, q)
    \/ register_commit(1)
    \/ validate_register(1)
    \/ validate_commit(1)
    \/ validate_wrong(1)
    \/ \E q \in Questions : validate_regenerate(1, q)
    \/ \E q \in Questions : generate_issue(1, q)

GoodStep ==
    UserRegisters \/ UserAnswersCorrectly \/ UserVerified \/ RequestFinishes

\* The workers serve every request to its end and the user keeps calling.
SpecLive == Init /\ [][NextLive]_vars /\ WF_vars(GoodStep)


\* ------------------------------------- specification: the request bodies
\* The value of one field of a JSON body: the field is absent, a number
\* (whole, or whole + 0.5) or a text.
JsonAbsent == [kind |-> "absent", number |-> Whole(0), text |-> <<>>]
JsonNumber(x) == [kind |-> "number", number |-> x, text |-> <<>>]
JsonText(s) == [kind |-> "text", number |-> Whole(0), text |-> s]

\* The bodies the clients send.
UserIdValues ==
    {JsonAbsent, JsonNumber(Whole(1)), JsonNumber(Whole(0)),
     JsonNumber(AndAHalf(1)), JsonText(<<"1">>), JsonText(<<"x">>)}
GiveawayIdValues == {JsonAbsent, JsonNumber(Whole(1)), JsonNumber(Whole(0))}
AnswerValues ==
    {JsonAbsent, JsonNumber(Whole(3)), JsonNumber(AndAHalf(3)),
     JsonText(<<"3">>), JsonText(<<" ", "4", " ">>), JsonText(<<"x">>)}
RegisterBodies == [user_id : UserIdValues, giveaway_id : GiveawayIdValues]
CaptchaBodies ==
    [user_id : UserIdValues, giveaway_id : GiveawayIdValues,
     answer : AnswerValues]

\* int(value) of a JSON value: a number is cut to its whole part, a text is
\* read as a literal; ok is FALSE where int() raises ValueError.
ParseInt(v) ==
    IF v.kind = "number" THEN [ok |-> TRUE, value |-> int(v.number)]
    ELSE IF IsNumeric(v.text) THEN [ok |-> TRUE, value |-> IntValue(v.text)]
    ELSE [ok |-> FALSE, value |-> 0]

\* str(value): the digits of a whole number, "k.5" of a fraction, a text
\* as it is.
RECURSIVE str(_)
str(k) ==
    LET digit == CHOOSE c \in DigitChars : DigitValue(c) = k % 10
    IN IF k < 10 THEN <<digit>> ELSE Append(str(k \div 10), digit)

StrOf(v) ==
    IF v.kind = "text" THEN v.text
    ELSE IF v.number.half THEN str(v.number.whole) \o <<".", "5">>
    ELSE str(v.number.whole)

\* The field is present, int(value) succeeds and the id is in range.
UserIdValid(v) ==
    v.kind # "absent" /\ ParseInt(v).ok /\ validate_user_id(ParseInt(v).value)

GiveawayIdValid(v) ==
    /\ v.kind # "absent"
    /\ ParseInt(v).ok
    /\ validate_giveaway_id(ParseInt(v).value)

\* InputValidator.validate_captcha_answer: int(str(answer).strip()).
validate_captcha_answer(v) == v.kind # "absent" /\ IsNumeric(StrOf(v))

\* InputValidator.validate_participation_request
validate_participation_request(data) ==
    [valid |-> UserIdValid(data.user_id) /\ GiveawayIdValid(data.giveaway_id),
     user_id |-> ParseInt(data.user_id).value,
     giveaway_id |-> ParseInt(data.giveaway_id).value]

\* InputValidator.validate_captcha_request
validate_captcha_request(data) ==
    [valid |-> /\ UserIdValid(data.user_id)
               /\ GiveawayIdValid(data.giveaway_id)
               /\ validate_captcha_answer(data.answer),
     user_id |-> ParseInt(data.user_id).value,
     giveaway_id |-> ParseInt(data.giveaway_id).value,
     answer |-> StrOf(data.answer)]

\* participants.py:13-29: the body is validated, the handler goes on with
\* the validated values.
register_participation(r, data) ==
    LET validation == validate_participation_request(data) IN
    IF ~validation.valid
    THEN /\ Free(r)
         /\ Respond(r, "register", 0, 0, "INVALID_INPUT", "none")
         /\ UNCHANGED <<store, now, draw>>
    ELSE register_check(r, validation.user_id, validation.giveaway_id)

\* captcha.py:10-27
validate_captcha(r, data) ==
    LET validation == validate_captcha_request(data) IN
    IF ~validation.valid
    THEN /\ Free(r)
         /\ Respond(r, "validate", 0, 0, "INVALID_INPUT", "none")
         /\ UNCHANGED <<store, now, draw>>
    ELSE validate_check(r, validation.user_id, validation.giveaway_id,
                        validation.answer)

\* The registration and captcha handlers called with JSON bodies, one
\* request at a time.
NextInput ==
    \/ \E data \in RegisterBodies : register_participation(1, data)
    \/ \E q \in Questions : register_issue(1, q)
    \/ register_commit(1)
    \/ \E data \in CaptchaBodies : validate_captcha(1, data)
    \/ validate_latch(1)
    \/ validate_register(1)
    \/ validate_commit(1)
    \/ validate_wrong(1)
    \/ \E q \in Questions : validate_regenerate(1, q)

SpecInput == Init /\ [][NextInput]_vars


\* ------------------------------- specification: one user, two giveaways
\* The registration and captcha handlers of user 1 on both giveaways, two
\* requests in flight: the user's one record is written by the captcha flows
\* of different giveaways.  Every answer sent is the correct one.
LatchAnswers == {<<"3">>}

NextLatch ==
    \/ \E r \in Reqs, g \in Giveaways : register_check(r, 1, g)
    \/ \E r \in Reqs, q \in Questions : register_issue(r, q)
    \/ \E r \in Reqs : register_commit(r)
    \/ \E r \in Reqs, g \in Giveaways, a \in LatchAnswers :
           validate_check(r, 1, g, a)
    \/ \E r \in Reqs : validate_latch(r)
    \/ \E r \in Reqs : validate_register(r)
    \/ \E r \in Reqs : validate_commit(r)

SpecLatch == Init /\ [][NextLatch]_vars


\* ------------------------------------ specification: the cleanup sweeps
\* The registration and captcha handlers of user 1 on giveaway 1, one
\* request at a time, while the clock advances and both sweeps run at any
\* moment, between the steps of a request included.
NextSweep ==
    \/ \E u \in UserInputs, g \in CaptchaGiveaways :
           register_check(1, u, g)
    \/ \E q \in Questions : register_issue(1, q)
    \/ register_commit(1)
    \/ \E u \in UserInputs, g \in CaptchaGiveaways, a \in AnswerInputs :
           validate_check(1, u, g, a)
    \/ validate_latch(1)
    \/ validate_register(1)
    \/ validate_commit(1)
    \/ validate_wrong(1)
    \/ \E q \in Questions : validate_regenerate(1, q)
    \/ cleanup_expired_sessions
    \/ cleanup_old_captcha_sessions
    \/ Tick
    \/ TickRetention

SpecSweep == Init /\ [][NextSweep]_vars


\* --------------------------- specification: the pools of two giveaways
\* Registrations of user 1 for both giveaways and of user 2 for giveaway 1,
\* and selections of one winner for either giveaway, two requests in flight.
PoolWinnerCounts == {Whole(1)}
PoolRegistrations == {<<1, 1>>, <<1, 2>>, <<2, 1>>}

NextPool ==
    \/ \E r \in Reqs, ug \in PoolRegistrations :
           register_check(r, ug[1], ug[2])
    \/ \E r \in Reqs : register_commit(r)
    \/ \E r \in Reqs, g \in Giveaways, n \in PoolWinnerCounts :
           select_winners_read(r, g, n)
    \/ \E r \in Reqs : select_winners_commit(r)

SpecPool == InitWin /\ [][NextPool]_vars


\* ================================================================ claims
\* The error taxonomy of the responses.
ValidationCodes == {"INVALID_INPUT", "MISSING_FIELD"}
ConflictCodes == {"ALREADY_PARTICIPATED", "DUPLICATE_PARTICIPATION"}
InternalCodes == {"REGISTRATION_ERROR", "CAPTCHA_VALIDATION_ERROR"}

\* The rows of user u in a participants table.
RowsOf(ps, u) == {i \in 1..Len(ps) : ps[i].user_id = u}

\* C1: at most one Participant row exists for a (giveaway, user) pair,
\* whatever the interleaving of the requests that register the pair.
C1_UniqueParticipant ==
    \A i, j \in 1..Len(participants) :
        (/\ participants[i].giveaway_id = participants[j].giveaway_id
         /\ participants[i].user_id = participants[j].user_id) => i = j

\* Two registrations of the pair raced: the one that committed second was
\* turned away by the constraint, and the pair has its row.
C1_Witness ==
    /\ last.cause = "unique_violation"
    /\ last.op \in {"register", "register_v2"}
    /\ HasParticipant(participants, last.giveaway, last.user)

\* C2 (as claimed): the registration that loses the race for a pair is
\* answered with a conflict error, not with a validation error and not with
\* the generic internal error of a failed registration.
C2_LoserGetsConflict ==
    (last.op = "register" /\ last.cause = "unique_violation")
        => (/\ last.code \in ConflictCodes
            /\ last.code \notin ValidationCodes \cup InternalCodes)

\* C3: captcha_completed is a one-way latch: a step of any operation
\* (registration, captcha validation and generation, winner selection,
\* delivery update, cleanup) leaves a latched user's record in place and
\* latched.
C3_LatchOneWay ==
    [][\A u \in Users : Latched(records, u) => Latched(records', u)]_vars

\* A latched user for whom a second correct answer, a winner selection and
\* a delivery update followed the latch.
C3_Witness ==
    /\ Latched(records, 1)
    /\ Cardinality({i \in 1..Len(sessions) : sessions[i].completed}) = 2
    /\ Len(logs) > 0
    /\ \E i \in RowsOf(participants, 1) : participants[i].delivery_attempts > 0

\* C4 (as claimed): once the latch of a user is committed, no registration
\* and no captcha generation that completes later inserts a CaptchaSession
\* for the user, whatever the interleaving.
C4_NoSessionOnceLatched ==
    [][(/\ Len(sessions') > Len(sessions)
        /\ last'.op \in {"register", "generate"})
          => ~Latched(records, last'.user)]_vars

\* C4 (amended): a registration or a captcha generation that reads the
\* user's record when the latch is committed never goes on to insert a
\* CaptchaSession; such a registration goes straight to its commit (or
\* ends with a response).
C4_NoSessionAfterLatchedRead ==
    [][\A r \in Reqs :
          (/\ req[r].pc = "done"
           /\ req'[r].pc \in {"register_issue", "generate_issue",
                              "register_commit", "register_v2_commit"}
           /\ Latched(records, req'[r].user))
            => req'[r].pc \in {"register_commit", "register_v2_commit"}]_vars

\* A registration of a latched user stands before its commit.
C4_Witness ==
    \E r \in Reqs :
        req[r].pc = "register_commit" /\ Latched(records, req[r].user)

\* C5 (as claimed): for every user, total_participations equals the number
\* of the user's Participant rows, also when registrations of the user for
\* different giveaways commit concurrently.
C5_CounterMatchesRows ==
    \A u \in Users :
        records[u].exists =>
            records[u].total_participations =
                Cardinality(RowsOf(participants, u))

\* C6 (as claimed): the latch set by a correct answer and the Participant
\* row of that registration become visible together, so a latched user
\* always has a Participant row.
C6_LatchWithParticipant ==
    \A u \in Users : Latched(records, u) => RowsOf(participants, u) # {}

\* C7 (as claimed): every Participant row was created by a request in which
\* the subscription verifier answered success with is_subscribed = true.
C7_OnlyVerifiedParticipants ==
    \A i \in 1..Len(participants) : participants[i].verified

\* A register-participation request was answered by its first step (the
\* one that runs the checks), for a pair that has a Participant row.
RegisterOfExistingPair ==
    /\ last'.op = "register"
    /\ req' = req
    /\ \E i \in 1..Len(participants) :
           /\ participants[i].giveaway_id = last'.giveaway
           /\ participants[i].user_id = last'.user

\* C8 (as claimed): register-participation for a pair that has a
\* Participant row answers already-participated and changes no row.
C8_ExistingPairAlreadyParticipated ==
    [][RegisterOfExistingPair
          => (last'.code = "ALREADY_PARTICIPATED" /\ UNCHANGED store)]_vars

\* The number of positions of a list that hold v.
Count(seq, v) == Cardinality({k \in 1..Len(seq) : seq[k] = v})

\* C9: select_winners_cryptographic(P, N) returns min(max(N, 0), |P|)
\* elements, each from a different position of P (no id more often than P
\* holds it); nothing for N <= 0 or an empty pool, and every element of P
\* exactly once for N >= |P|.
C9_CryptographicSelection ==
    draw.pc = "returned" =>
        LET P == draw.participants
            N == draw.winner_count
            W == draw.winners
        IN /\ Len(W) = Min(Max(N, 0), Len(P))
           /\ \A v \in PoolIds : Count(W, v) <= Count(P, v)
           /\ Range(W) \subseteq Range(P)
           /\ (N <= 0 \/ Len(P) = 0) => W = <<>>
           /\ N >= Len(P) => \A v \in PoolIds : Count(W, v) = Count(P, v)
           /\ (\A v \in PoolIds : Count(P, v) <= 1)
                  => \A v \in PoolIds : Count(W, v) <= 1

\* A draw of fewer winners than the pool holds, from a pool with a
\* repeated id.
C9_Witness ==
    /\ draw.pc = "returned"
    /\ draw.winner_count > 1
    /\ draw.winner_count < Len(draw.participants)
    /\ Len(draw.winners) = draw.winner_count
    /\ \E v \in PoolIds : Count(draw.participants, v) > 1

\* C10 (as claimed): the log row of every completed select-winners run has
\* total_participants = the size of the pool the run read, and
\* winner_count_selected = min(requested count, pool size) = the length of
\* selected_user_ids = the number of rows of the giveaway the run flagged;
\* so 0 <= winner_count_selected <= total_participants.
C10_LogMatchesRun ==
    \A k \in 1..Len(logs) :
        LET l == logs[k] IN
        /\ l.total_participants = Len(l.pool)
        /\ l.winner_count_selected =
               Min(l.winner_count_requested, Len(l.pool))
        /\ l.winner_count_selected = Len(l.selected_user_ids)
        /\ l.winner_count_selected = Cardinality(l.flagged)
        /\ \A i \in l.flagged : /\ participants[i].giveaway_id = l.giveaway_id
                                /\ participants[i].is_winner
        /\ 0 <= l.winner_count_selected
        /\ l.winner_count_selected <= l.total_participants

\* The winner flags, log rows and total_wins columns of the store.
WinnerState(ps, rs, ls) ==
    <<{i \in 1..Len(ps) : ps[i].is_winner},
      [u \in Users |-> rs[u].total_wins], ls>>

\* C11: the flags, the log row and the total_wins writes of a select-winners
\* run are one transaction.  A step changes any of them only by adding the
\* run's log row together with the flags of the rows the run picked and the
\* total_wins of the users it picked; a run that fails changes no row; so in
\* every state the flagged rows are those of the logged runs and the users
\* with wins are the logged winners.
C11_SelectionAtomicStep ==
    /\ (WinnerState(participants', records', logs')
            # WinnerState(participants, records, logs))
         => /\ Len(logs') = Len(logs) + 1
            /\ SubSeq(logs', 1, Len(logs)) = logs
            /\ last'.code = "WINNERS_SELECTED"
            /\ LET l == logs'[Len(logs')] IN
               /\ \A i \in 1..Len(participants') :
                      participants'[i].is_winner =
                          (participants[i].is_winner \/ i \in l.flagged)
               /\ \A u \in Users :
                      IF u \in Range(l.selected_user_ids) /\ records[u].exists
                      THEN records'[u].total_wins >= 1
                      ELSE records'[u].total_wins = records[u].total_wins
    /\ (last'.op = "select" /\ last'.code # "WINNERS_SELECTED")
         => UNCHANGED store

C12_PoolSnapshotStep ==
    \A r \in Reqs :
        /\ (req[r].pc = "done" /\ req'[r].pc = "select_commit")
             => req'[r].pool =
                    EligibleParticipants(participants, req'[r].giveaway)
        /\ (/\ req[r].pc = "select_commit"
            /\ req'[r].pc = "done"
            /\ Len(logs') > Len(logs))
             => LET l == logs'[Len(logs')] IN
                /\ l.total_participants = Len(req[r].pool)
                /\ l.flagged \subseteq Range(req[r].pool)
                /\ \A i \in 1..Len(participants) :
                       (i \notin Range(req[r].pool)) =>
                           participants'[i].is_winner
                               = participants[i].is_winner

C12_PoolSnapshot == [][C12_PoolSnapshotStep]_vars

\* A run has just committed, and a Participant of the giveaway was
\* committed after the run read its pool: the row is not flagged and the
\* log counts one row fewer than the giveaway has.
C12_Witness ==
    /\ last.op = "select"
    /\ last.code = "WINNERS_SELECTED"
    /\ Len(logs) > 0
    /\ LET l == logs[Len(logs)]
           eligible == EligibleParticipants(participants, l.giveaway_id)
       IN /\ l.total_participants < Len(eligible)
          /\ \E i \in Range(eligible) :
                 i \notin Range(l.pool) /\ ~participants[i].is_winner

\* C13 (as claimed): two completed calls of select_winners_with_seed with
\* the same participants, winner_count and seed returned the same list,
\* whatever ran between or next to them.
C13_SeededDeterministic ==
    \A t1, t2 \in Threads :
        LET c1 == draw.call[t1]
            c2 == draw.call[t2]
        IN (/\ c1.pc = "returned" /\ c2.pc = "returned"
            /\ c1.use_seed /\ c2.use_seed
            /\ c1.participants = c2.participants
            /\ c1.winner_count = c2.winner_count
            /\ c1.seed = c2.seed)
             => c1.winners = c2.winners

\* The calls of select_winners that have returned.
ReturnedSelections ==
    {draw.call[t] : t \in {x \in Threads :
                              /\ draw.call[x].pc = "returned"
                              /\ draw.call[x].fn = "select_winners"}}

\* The fields of the result that both modes fill the same way.
ResultCounts(c) ==
    /\ c.result.winners = c.winners
    /\ c.result.winner_count_requested = c.winner_count
    /\ c.result.winner_count_selected = Len(c.winners)
    /\ c.result.total_participants = Len(c.participants)

\* C14 (as claimed): the default mode reports cryptographic_random with a
\* null seed; use_seed reports deterministic_seed with the seed the
\* selection used, which is the custom seed whenever one is passed; both
\* modes report the counts of the call.
C14_ResultFields ==
    \A c \in ReturnedSelections :
        /\ ResultCounts(c)
        /\ ~c.use_seed => /\ c.result.selection_method = "cryptographic_random"
                          /\ c.result.selection_seed = None
        /\ c.use_seed => /\ c.result.selection_method = "deterministic_seed"
                         /\ c.result.selection_seed = c.seed
                         /\ c.custom_seed # None
                                => c.result.selection_seed = c.custom_seed

\* C15: validate_answer returns true exactly when the text, surrounding
\* whitespace trimmed, is an integer literal whose value is correct_answer;
\* for a text that is no number, and for None, it returns false (the call
\* returns in every case).
C15_ValidateAnswer ==
    draw.pc = "returned" =>
        draw.returned =
            (draw.case.number /\ draw.case.value = draw.correct_answer)

\* Accepted: a text with whitespace around the right number.  (The other
\* cases, a signed literal of the wrong sign and None, are in AnswerCases.)
C15_Witness ==
    /\ draw.pc = "returned"
    /\ draw.returned
    /\ draw.case.text = <<"\t", "1", "2", " ", "\n">>
    /\ draw.correct_answer = 12

\* Request r commits a wrong answer against a session that is active, and
\* the attempts it writes stay below max_attempts.
WrongAnswerBelowMax(r) ==
    /\ req[r].pc = "validate_wrong"
    /\ req'[r].pc # "validate_wrong"
    /\ sessions[req[r].sid].live
    /\ can_attempt(sessions[req[r].sid], now)
    /\ req[r].attempts < sessions[req[r].sid].max_attempts

\* C16: a wrong answer that leaves attempts below max_attempts changes
\* nothing of the session but its attempts (same question, same
\* correct_answer, still active), is answered "incorrect" with
\* attempts_remaining = max_attempts - attempts (2 after the first wrong
\* answer), inserts no session and no Participant and changes no
\* UserCaptchaRecord.
C16_WrongAnswerStep ==
    \A r \in Reqs :
        WrongAnswerBelowMax(r) =>
            LET sid == req[r].sid IN
            /\ sessions' = [sessions EXCEPT ![sid].attempts = req[r].attempts]
            /\ sessions'[sid].question = sessions[sid].question
            /\ sessions'[sid].correct_answer = sessions[sid].correct_answer
            /\ can_attempt(sessions'[sid], now')
            /\ last'.code = "INCORRECT_ANSWER"
            /\ last'.attempts_remaining =
                   sessions'[sid].max_attempts - sessions'[sid].attempts
            /\ (sessions'[sid].attempts = 1) => (last'.attempts_remaining = 2)
            /\ UNCHANGED <<participants, records>>

C16_WrongAnswerKeepsSession == [][C16_WrongAnswerStep]_vars

\* The second wrong answer against a session was answered: one attempt is
\* left and the session is still the one to answer.
C16_Witness ==
    /\ last.op = "validate"
    /\ last.code = "INCORRECT_ANSWER"
    /\ last.attempts_remaining = 1
    /\ \E i \in 1..Len(sessions) :
           /\ sessions[i].attempts = 2
           /\ can_attempt(sessions[i], now)
           /\ FindSession(sessions, last.user, last.giveaway) = i

\* C17: the wrong answer that brings a session to max_attempts makes the
\* same request insert a new session for the pair: a generated question,
\* attempts 0, expiry a full timeout from now; the response announces the
\* new question with all attempts left.  The exhausted row stays as it is,
\* and the session lookup of validate-captcha finds the new row, so the
\* next answer is checked against the new question.
C17_RegenerateStep ==
    \A r \in Reqs :
        /\ (/\ req[r].pc = "validate_wrong"
            /\ req'[r].pc # "validate_wrong"
            /\ sessions[req[r].sid].live
            /\ req[r].attempts >= sessions[req[r].sid].max_attempts)
             => /\ req'[r].pc = "validate_regenerate"
                /\ sessions'[req[r].sid].attempts = req[r].attempts
        /\ (req[r].pc = "validate_regenerate" /\ req'[r].pc = "done")
             => LET new == Len(sessions') IN
                /\ new = Len(sessions) + 1
                /\ SubSeq(sessions', 1, Len(sessions)) = sessions
                /\ sessions'[new].user_id = req[r].user
                /\ sessions'[new].giveaway_id = req[r].giveaway
                /\ \E q \in Questions :
                       /\ sessions'[new].question = q.question
                       /\ sessions'[new].correct_answer = q.correct_answer
                /\ sessions'[new].attempts = 0
                /\ sessions'[new].expires_at = now + TimeoutMinutes
                /\ can_attempt(sessions'[new], now')
                /\ last'.code = "NEW_QUESTION"
                /\ last'.attempts_remaining = MaxAttempts
                /\ FindSession(sessions', req[r].user, req[r].giveaway) = new
        /\ (req[r].pc = "done"
            /\ req'[r].pc \in {"validate_latch", "validate_wrong"})
             => /\ req'[r].sid =
                       FindSession(sessions, req'[r].user, req'[r].giveaway)
                /\ sessions[req'[r].sid].attempts
                       < sessions[req'[r].sid].max_attempts

C17_ExhaustedRegenerates == [][C17_RegenerateStep]_vars

\* The third wrong answer against session 1 was answered with a new
\* question: session 2 is the one validate-captcha finds.
C17_Witness ==
    /\ last.op = "validate"
    /\ last.code = "NEW_QUESTION"
    /\ Len(sessions) = 2
    /\ sessions[1].live /\ sessions[1].attempts = MaxAttempts
    /\ ~sessions[1].completed
    /\ sessions[2].attempts = 0
    /\ FindSession(sessions, last.user, last.giveaway) = 2

\* The table of the model is full where the service would insert a session.
TableFull ==
    \E r \in Reqs :
        /\ req[r].pc \in {"register_issue", "generate_issue",
                          "validate_regenerate"}
        /\ Len(sessions) >= MaxSessions

\* C18: the user is never locked out.  After any history of wrong answers,
\* exhausted and expired sessions, sweeps and failed verifications, once
\* the user only registers when no question is presented and answers the
\* presented question correctly (giveaway active, user subscribed), the
\* pair gets its Participant row.
C18_NeverLockedOut ==
    (<>[][GoodStep]_vars /\ []~TableFull)
        => <>HasParticipant(participants, 1, 1)

\* The pair has its row although an earlier session of it was exhausted.
C18_Witness ==
    /\ HasParticipant(participants, 1, 1)
    /\ Len(sessions) = 2
    /\ sessions[1].attempts = MaxAttempts /\ ~sessions[1].completed
    /\ sessions[2].completed

\* The newest session ever issued to the pair and not completed, its row
\* deleted or not; 0 when there is none.
NewestUncompleted(ss, u, g) ==
    LET hits == {i \in 1..Len(ss) : /\ ss[i].user_id = u
                                     /\ ss[i].giveaway_id = g
                                     /\ ~ss[i].completed}
    IN IF hits = {} THEN 0 ELSE CHOOSE i \in hits : \A j \in hits : j <= i

\* This step is the first of a validate-captcha call for (u, g) whose input
\* is well-formed.
ValidateCalled(u, g) ==
    \/ /\ req' = req
       /\ last'.op = "validate"
       /\ last'.code # "INVALID_INPUT"
       /\ last'.user = u /\ last'.giveaway = g
    \/ \E r \in Reqs :
           /\ req[r].pc = "done"
           /\ req'[r].pc \in {"validate_latch", "validate_wrong"}
           /\ req'[r].user = u /\ req'[r].giveaway = g

\* The newest uncompleted session of (u, g) has expired.
ExpiredSessionOf(u, g) ==
    /\ NewestUncompleted(sessions, u, g) # 0
    /\ now > sessions[NewestUncompleted(sessions, u, g)].expires_at

\* C19 (as claimed): a validate-captcha call for a pair whose session has
\* expired is answered with the expired error, whatever the answer, and
\* changes no row (no attempt counted, no latch, no Participant), whether
\* or not the cleanup sweep has run.
C19_ExpiredRejectedStep ==
    \A u \in CaptchaUsers, g \in CaptchaGiveaways :
        (ValidateCalled(u, g) /\ ExpiredSessionOf(u, g))
            => /\ last'.code = "CAPTCHA_EXPIRED"
               /\ req' = req
               /\ UNCHANGED store

C19_ExpiredRejected == [][C19_ExpiredRejectedStep]_vars

\* C19 (amended): such a call is never accepted and changes no row; it is
\* answered with the expired error while the expired row exists, and with
\* session-not-found once the cleanup sweep has deleted the row.
C19_ExpiredOrSweptStep ==
    \A u \in CaptchaUsers, g \in CaptchaGiveaways :
        (ValidateCalled(u, g) /\ ExpiredSessionOf(u, g))
            => /\ last'.code =
                      IF sessions[NewestUncompleted(sessions, u, g)].live
                      THEN "CAPTCHA_EXPIRED"
                      ELSE "CAPTCHA_SESSION_NOT_FOUND"
               /\ last'.code \notin {"INCORRECT_ANSWER", "NEW_QUESTION"}
               /\ req' = req
               /\ UNCHANGED store

C19_ExpiredOrSwept == [][C19_ExpiredOrSweptStep]_vars

\* A session that took one wrong answer and then expired was answered with
\* the expired error: its attempts are as they were, the user is not
\* latched and has no Participant.
C19_Witness ==
    /\ last.op = "validate"
    /\ last.code = "CAPTCHA_EXPIRED"
    /\ \E i \in 1..Len(sessions) :
           /\ sessions[i].live
           /\ now > sessions[i].expires_at
           /\ sessions[i].attempts = 1
           /\ ~sessions[i].completed
    /\ ~Latched(records, last.user)
    /\ ~HasParticipant(participants, last.giveaway, last.user)

\* The sessions of (u, g) a validate-captcha call could still be answered
\* against: row present, not completed, not expired, attempts left.
ActiveSessions(ss, u, g, t) ==
    {i \in 1..Len(ss) : /\ ss[i].live
                        /\ ss[i].user_id = u
                        /\ ss[i].giveaway_id = g
                        /\ ~ss[i].completed
                        /\ ~(t > ss[i].expires_at)
                        /\ ss[i].attempts < MaxAttempts}

\* C20: in every reachable state each (user, giveaway) pair has at most one
\* active CaptchaSession (not completed, not expired, attempts below
\* max_attempts).
C20_OneActiveSession ==
    \A u \in CaptchaUsers, g \in CaptchaGiveaways :
        Cardinality(ActiveSessions(sessions, u, g, now)) <= 1

\* Request r ends in this step with a failed registration commit (the
\* Participant insert and the counter update of register_participation or
\* of validate_captcha).
RegistrationCommitFails(r) ==
    /\ req[r].pc \in {"register_commit", "validate_commit"}
    /\ req'[r].pc = "done"
    /\ last'.code # "PARTICIPATION_CONFIRMED"

\* C21: when the registration commit fails, neither the Participant row nor
\* the counter update survives, the caller gets the registration-failed
\* error, and nothing the failed request wrote is left behind: the session
\* a validate-captcha request answered is still open, so the same request
\* can be repeated.
C21_CommitFailureStep ==
    \A r \in Reqs :
        RegistrationCommitFails(r)
            => /\ participants' = participants
               /\ records' = records
               /\ last'.code = "REGISTRATION_ERROR"
               /\ req[r].pc = "validate_commit"
                      => ~sessions'[req[r].sid].completed

C21_CommitFailureRollsBack == [][C21_CommitFailureStep]_vars

\* An id as the interface defines it: a whole number, or the literal of
\* one, that is at least 1.
WellFormedId(v) ==
    \/ v.kind = "number" /\ ~v.number.half /\ v.number.whole >= 1
    \/ v.kind = "text" /\ IsNumeric(v.text) /\ IntValue(v.text) >= 1

\* An integer answer: a whole number or the literal of one.
IntegerAnswer(v) ==
    \/ v.kind = "number" /\ ~v.number.half
    \/ v.kind = "text" /\ IsNumeric(v.text)

\* The request ends with the validation error and no row has changed.
RejectedUnchanged ==
    /\ last'.code = "INVALID_INPUT"
    /\ req'[1].pc = "done"
    /\ UNCHANGED store

\* C22: a register-participation or validate-captcha request whose
\* giveaway_id or user_id is missing, malformed or out of range, or whose
\* answer is not an integer, is rejected with a validation error and no
\* row of the store changes.
C22_InvalidRejectedStep ==
    /\ \A data \in RegisterBodies :
           (/\ register_participation(1, data)
            /\ ~(WellFormedId(data.user_id) /\ WellFormedId(data.giveaway_id)))
               => RejectedUnchanged
    /\ \A data \in CaptchaBodies :
           (/\ validate_captcha(1, data)
            /\ ~(/\ WellFormedId(data.user_id)
                 /\ WellFormedId(data.giveaway_id)
                 /\ IntegerAnswer(data.answer)))
               => RejectedUnchanged

C22_InvalidRejected == [][C22_InvalidRejectedStep]_vars

\* The responses of a select-winners call that ran no selection: the
\* input was refused or the giveaway has no eligible participant.
SelectRefusals ==
    {"INVALID_INPUT", "MISSING_FIELD", "INVALID_WINNER_COUNT_MIN",
     "INVALID_WINNER_COUNT_MAX", "INSUFFICIENT_PARTICIPANTS",
     "NO_PARTICIPANTS"}

\* A select-winners call that ran a selection ends in this step, its
\* commit not refused by the store.
SelectionRunEnds ==
    /\ last'.op \in {"select", "select_v2"}
    /\ last'.code \notin SelectRefusals
    /\ last'.cause # "commit_failed"

\* C23: the selection log is append-only: every select-winners run creates
\* exactly one log row, and no step changes or removes a row the log has.
C23_LogAppendOnlyStep ==
    /\ Len(logs') \in {Len(logs), Len(logs) + 1}
    /\ \A i \in 1..Len(logs) : logs'[i] = logs[i]
    /\ SelectionRunEnds => Len(logs') = Len(logs) + 1
    /\ Len(logs') = Len(logs) + 1 => SelectionRunEnds

C23_LogAppendOnly == [][C23_LogAppendOnlyStep]_vars

\* The winner columns and the delivery columns of a Participant row.
WinnerFields(p) == p.is_winner
DeliveryFields(p) == <<p.message_delivered, p.delivery_attempts>>

\* C24: only a select-winners commit changes the winner columns of a
\* Participant row, only update-delivery-status changes its delivery
\* columns, a new row starts with the defaults of both, and no step
\* removes a row or gives it to another (giveaway, user).
C24_ParticipantFrameStep ==
    /\ Len(participants') >= Len(participants)
    /\ \A i \in 1..Len(participants) :
           /\ participants'[i].giveaway_id = participants[i].giveaway_id
           /\ participants'[i].user_id = participants[i].user_id
           /\ WinnerFields(participants'[i]) # WinnerFields(participants[i])
                  => /\ last'.op = "select"
                     /\ \E r \in Reqs : req[r].pc = "select_commit"
                                        /\ req'[r].pc = "done"
           /\ DeliveryFields(participants'[i]) # DeliveryFields(participants[i])
                  => last'.op = "delivery"
    /\ \A i \in (Len(participants) + 1)..Len(participants') :
           /\ ~WinnerFields(participants'[i])
           /\ DeliveryFields(participants'[i]) = <<FALSE, 0>>
           /\ last'.op \in {"register", "register_v2", "validate"}

C24_ParticipantFrame == [][C24_ParticipantFrameStep]_vars

\* A winner's delivery status was updated and the row is still a winner.
C24_Witness ==
    /\ last.op = "delivery"
    /\ last.code = "UPDATED"
    /\ \E i \in 1..Len(participants) :
           /\ participants[i].is_winner
           /\ participants[i].delivery_attempts = 1
           /\ participants[i].message_delivered

\* Some id occurs twice in the list.
Repeats(seq) == \E i, j \in 1..Len(seq) : i < j /\ seq[i] = seq[j]

\* C25: validate_selection_integrity reports 'every winner is a
\* participant', 'no winner is repeated' and '|winners| <= |participants|'
\* as they are, reports winners_not_empty false only when participants is
\* non-empty, the requested count was above 0 and winners is empty, and
\* overall_valid as the conjunction of the four.
C25_IntegrityFields ==
    draw.pc = "validated" =>
        LET v == draw.validations
            ps == draw.participants
            winners == draw.winners
        IN /\ v.all_winners_are_participants
                  = (Range(winners) \subseteq Range(ps))
           /\ v.no_duplicate_winners = ~Repeats(winners)
           /\ v.winner_count_reasonable = (Len(winners) <= Len(ps))
           /\ v.winners_not_empty
                  = ~(Len(ps) > 0 /\ draw.winner_count > 0 /\ Len(winners) = 0)
           /\ v.overall_valid
                  = (/\ v.all_winners_are_participants
                     /\ v.no_duplicate_winners
                     /\ v.winner_count_reasonable
                     /\ v.winners_not_empty)

\* C26: the cryptographic selection is uniform: a draw returns every index
\* of the remaining pool for the same number of equally likely raw values,
\* and the chance of every element of a pool of distinct ids to be selected
\* is the number of winners over the pool size (3/10 for a pool of 10 and
\* 3 winners, the expectation of the frequency over many trials).
C26_UniformSelection ==
    /\ \A n \in 1..MaxFairPool : \A i, j \in 0..(n - 1) :
           randbelow_ways(n, i) = randbelow_ways(n, j)
    /\ draw.pc = "counted" =>
           \A e \in Range(draw.participants) :
               draw.ways[e] * Len(draw.participants)
                   = Min(Max(draw.winner_count, 0), Len(draw.participants))
                         * draw.total

\* The pool of 10 with 3 winners: of 720 draw sequences 216 select id 1.
C26_Witness ==
    /\ draw.pc = "counted"
    /\ Len(draw.participants) = 10
    /\ draw.winner_count = 3
    /\ draw.total = 720
    /\ \A e \in 1..10 : draw.ways[e] = 216

\* This step is a call of generate_question: it draws its three values
\* from the generator of the process.
QuestionDrawn ==
    /\ draw'.call = draw.call
    /\ draw'.random = Advance(draw.random, 3)

\* C27: question generation and the selection draws use only request-local
\* state: the generator a question is drawn from was seeded by no
\* selection, so no question depends on a selection's seed.
C27_QuestionStep == QuestionDrawn => draw.random.seed = SystemRandom.seed

C27_QuestionsIndependentOfSeed == [][C27_QuestionStep]_vars

\* The value of the expression a question shows.
ShownValue(q) ==
    CASE q.symbol = "+" -> q.num1 + q.num2
      [] q.symbol = "-" -> q.num1 - q.num2
      [] q.symbol = "*" -> q.num1 * q.num2

\* C28: for every operand range with min_number <= max_number,
\* generate_question returns a question whose answer is the value of the
\* expression it shows; the answer of a subtraction is not negative and
\* the operands of a multiplication do not exceed min(5, max_number).
C28_QuestionWellFormed ==
    draw.pc = "returned" =>
        LET q == draw.result IN
        /\ ~q.raised
        /\ q.answer = ShownValue(q)
        /\ q.symbol = "-" => q.answer >= 0
        /\ q.symbol = "*" =>
               /\ q.num1 <= Min(5, draw.config.max_number)
               /\ q.num2 <= Min(5, draw.config.max_number)

\* C29: select_winners_cryptographic called with None as participants ends
\* in a TypeError and returns no list, whatever the winner count.
C29_NoneRaisesTypeError ==
    (draw.pc = "ended" /\ draw.argument.is_none)
        => draw.outcome.error = "TypeError"

\* Request r, whose answer was evaluated against session req[r].sid,
\* commits its write of the session in this step.
AnswerCounted(r) ==
    /\ req[r].pc \in {"validate_wrong", "validate_latch"}
    /\ req'[r] # req[r]
    /\ last'.code # "CAPTCHA_VALIDATION_ERROR"

\* C30: every validate-captcha call whose answer is evaluated against a
\* session raises the attempts of that session by exactly one, so that no
\* more than max_attempts answers are evaluated against one question.
C30_AttemptCountedStep ==
    \A r \in Reqs :
        AnswerCounted(r)
            => sessions'[req[r].sid].attempts
                   = sessions[req[r].sid].attempts + 1

C30_EveryAttemptCounted == [][C30_AttemptCountedStep]_vars

\* C31: the table user_captcha_records never holds more than one row of a
\* user_id, also when the first correct answers of a new user for two
\* giveaways are validated at the same time and neither request found a row.
C31_OneRecordPerUser == \A u \in Users : records[u].rows <= 1

\* Two validate-captcha requests of one user, for different giveaways, both
\* loaded no record; one has committed its row, the other was refused.
C31_Witness ==
    /\ records[1].rows = 1
    /\ last.op = "validate"
    /\ last.cause = "unique_violation"
    /\ \E i, j \in 1..Len(sessions) :
           /\ sessions[i].giveaway_id # sessions[j].giveaway_id
           /\ sessions[i].completed
           /\ ~sessions[j].completed
           /\ sessions[j].attempts = 0
           /\ last.giveaway = sessions[j].giveaway_id

\* C32: every Participant row belongs to a user whose UserCaptchaRecord
\* exists with captcha_completed = true, and a registration that answers
\* CAPTCHA_REQUIRED writes no Participant row.
C32_RequiredStep ==
    last'.code = "CAPTCHA_REQUIRED" => participants' = participants

C32_ParticipantsOfLatchedUsers ==
    /\ [](\A i \in 1..Len(participants) :
              Latched(records, participants[i].user_id))
    /\ [][C32_RequiredStep]_vars

\* A captcha was required of the user and a Participant row was created
\* later, by the correct answer or by a direct registration.
C32_Witness ==
    /\ \E k \in 1..Len(sessions) : sessions[k].user_id = 1
    /\ \E i \in 1..Len(participants) : participants[i].user_id = 1
    /\ last.code = "PARTICIPATION_CONFIRMED"

\* Request r commits a new Participant row in this step.
CreatesParticipant(r) ==
    /\ req[r].pc \in {"register_commit", "validate_commit",
                      "register_v2_commit"}
    /\ req'[r] # req[r]
    /\ Len(participants') = Len(participants) + 1

\* C33: no Participant row is committed for a giveaway that is not active
\* while the creating request runs, on the direct registration path and on
\* the captcha-completion path alike.
C33_ActiveGiveawayStep ==
    \A r \in Reqs : CreatesParticipant(r) => req[r].status = "active"

C33_OnlyActiveGiveaways == [][C33_ActiveGiveawayStep]_vars

\* The Participant rows of user u that are flagged is_winner.
WinnerRowsOf(ps, u) == {i \in RowsOf(ps, u) : ps[i].is_winner}

\* C34: for every user with a UserCaptchaRecord, total_wins equals the
\* number of the user's Participant rows with is_winner = true, after any
\* sequence of select-winners runs, repeated runs on one giveaway included.
C34_WinsMatchWinnerRows ==
    \A u \in Users :
        records[u].exists
            => records[u].total_wins
                   = Cardinality(WinnerRowsOf(participants, u))

\* The rows of giveaway g flagged is_winner.
WinnersOf(ps, g) ==
    {i \in 1..Len(ps) : ps[i].giveaway_id = g /\ ps[i].is_winner}

\* The select-winners runs of giveaway g that were committed.
RunsOf(ls, g) == {k \in 1..Len(ls) : ls[k].giveaway_id = g}

\* C35: when every select-winners run of a giveaway asked for N winners,
\* the giveaway never has more than N rows with is_winner = true; a repeated
\* run adds no winner beyond the requested count.
C35_WinnersWithinRequest ==
    \A g \in Giveaways, N \in 0..(MaxWinners + 1) :
        (\A k \in RunsOf(logs, g) : logs[k].winner_count_requested = N)
            => Cardinality(WinnersOf(participants, g)) <= N

\* Request r, whose answer was found correct for session req[r].sid,
\* commits the completion of the session in this step.
AnswerAccepted(r) ==
    /\ req[r].pc = "validate_latch"
    /\ req'[r] # req[r]
    /\ last'.code # "CAPTCHA_VALIDATION_ERROR"

\* C36: a CaptchaSession accepts at most one correct answer: the commit of
\* a successful validate-captcha call marks the session completed, and no
\* later or concurrent call succeeds against a session already completed.
C36_OneSuccessStep ==
    \A r \in Reqs :
        AnswerAccepted(r)
            => /\ ~sessions[req[r].sid].completed
               /\ sessions'[req[r].sid].completed

C36_OneSuccessPerSession == [][C36_OneSuccessStep]_vars

\* The draw a selection_method names.
AlgorithmOf(selection_method) ==
    CASE selection_method = "cryptographic_random" -> "secrets.randbelow"
      [] selection_method = "deterministic_seed" -> "random.shuffle"
      [] OTHER -> "none"

\* C37: the selection_method of every WinnerSelectionLog row, and of every
\* response that reports a selection, names the draw that chose the winners
\* of that run: 'cryptographic_random' for the secure draw,
\* 'deterministic_seed' for the seeded shuffle only.
C37_MethodNamesAlgorithm ==
    /\ \A k \in 1..Len(logs) :
           AlgorithmOf(logs[k].selection_method) = logs[k].algorithm
    /\ last.code = "WINNERS_SELECTED"
           => /\ logs # <<>>
              /\ last.selection_method = logs[Len(logs)].selection_method

\* A selection drawn with secrets.randbelow was committed and reported.
C37_Witness ==
    /\ last.code = "WINNERS_SELECTED"
    /\ last.selection_method = "cryptographic_random"
    /\ logs # <<>>
    /\ logs[Len(logs)].algorithm = "secrets.randbelow"
    /\ logs[Len(logs)].winner_count_selected > 0

\* C38: every row a select-winners run of giveaway G flags is a row of G
\* that was in the eligible pool the run read (captcha_completed and
\* subscription_verified), every listed user id is the user of such a row,
\* and no other row is flagged.
C38_OnlyEligibleOfGiveaway ==
    /\ \A k \in 1..Len(logs) :
           /\ \A i \in logs[k].flagged :
                  /\ i \in Range(logs[k].pool)
                  /\ participants[i].giveaway_id = logs[k].giveaway_id
                  /\ participants[i].captcha_completed
                  /\ participants[i].subscription_verified
           /\ \A u \in Range(logs[k].selected_user_ids) :
                  \E i \in logs[k].flagged : participants[i].user_id = u
    /\ \A i \in 1..Len(participants) :
           participants[i].is_winner
               => \E k \in 1..Len(logs) : i \in logs[k].flagged

\* A run of one giveaway flagged a winner while the table held an eligible
\* row of the other giveaway, inserted before a row of the pool (its id is
\* lower), and that row stayed unflagged.
C38_Witness ==
    \E k \in 1..Len(logs), j \in 1..Len(participants) :
        /\ logs[k].flagged # {}
        /\ participants[j].giveaway_id # logs[k].giveaway_id
        /\ j < Max(logs[k].pool[1], logs[k].pool[Len(logs[k].pool)])
        /\ ~participants[j].is_winner

\* The number k as a JSON number equals x.
SameNumber(k, x) == ~x.half /\ x.whole = k

\* C39: select_winners_cryptographic returns after exactly N draws with N
\* distinct picks when 0 < N < |P|, and the index-set loop of
\* select_winners_v2 ends with exactly min(winner_count, pool size) distinct
\* participants selected, whatever winner_count the endpoint was sent.
C39_IntendedNumberOfPicks ==
    draw.pc = "returned"
        => LET n == Len(draw.participants) IN
           /\ (/\ draw.fn = "select_winners_cryptographic"
               /\ 0 < int(draw.winner_count)
               /\ int(draw.winner_count) < n)
                  => /\ draw.draws = int(draw.winner_count)
                     /\ Len(draw.selected) = int(draw.winner_count)
                     /\ Cardinality(Range(draw.selected))
                            = Len(draw.selected)
           /\ draw.fn = "select_winners_v2"
                  => /\ SameNumber(Len(draw.selected),
                                   MinNumber(draw.winner_count, n))
                     /\ Cardinality(Range(draw.selected))
                            = Len(draw.selected)

\* C40: a cleanup sweep deletes only CaptchaSession rows that are expired or
\* older than the retention cutoff, deletes no session that is still active
\* (not expired and answerable), leaves the rows it does not delete as they
\* are, and changes no Participant, UserCaptchaRecord or WinnerSelectionLog
\* row.
C40_SweepStep ==
    \A i \in 1..Len(sessions) :
        (sessions[i].live /\ ~sessions'[i].live)
            => /\ \/ sessions[i].expires_at < now
                  \/ created_at(sessions[i]) < now - RetentionMinutes
               /\ ~(/\ now <= sessions[i].expires_at
                    /\ ~sessions[i].completed
                    /\ sessions[i].attempts < sessions[i].max_attempts)
               /\ \A j \in 1..Len(sessions) :
                      sessions'[j].live => sessions'[j] = sessions[j]
               /\ UNCHANGED <<participants, records, logs>>

C40_SweepDeletesOnlyExpired == [][C40_SweepStep]_vars

\* A sweep has deleted an expired session and left in place an active one.
C40_Witness ==
    /\ \E i \in 1..Len(sessions) :
           ~sessions[i].live /\ sessions[i].expires_at < now
    /\ \E j \in 1..Len(sessions) :
           sessions[j].live /\ can_attempt(sessions[j], now)

====
